---- MODULE Spec2Model ----
(***************************************************************************)
(* Model of MailMind: the reply loop of gmail_agent.py (the thread         *)
(* evaluation, the reply and the star removal) against a mailbox, and the  *)
(* conversation memory store of memory/conversation_store.py.              *)
(*                                                                         *)
(* Time is counted in units of 12 hours; a From header is represented by   *)
(* the class of identity tests it passes; strings of the memory store are  *)
(* sequences of one-character strings.                                     *)
(***************************************************************************)
EXTENDS Integers, Sequences, FiniteSets, TLC

VARIABLES msgs, now, agentFrom, pc, queue, cur, sent_replies, last,
          unstarFailed,
          entities, relationships, storeClock, ret, upserts,
          threads, disk, summary, procs

vars == <<msgs, now, agentFrom, pc, queue, cur, sent_replies, last,
          unstarFailed, entities, relationships, storeClock, ret, upserts,
          threads, disk, summary, procs>>

mailVars == <<msgs, now, agentFrom, pc, queue, cur, sent_replies, last,
              unstarFailed>>
storeVars == <<entities, relationships, storeClock, ret, upserts>>
memVars == <<threads, disk, summary, procs>>

(***************************************************************************)
(* Bounds                                                                  *)
(***************************************************************************)
MaxMsgs == 4
NumThreads == 1
MaxTime == 2
MaxSnap == 3
MaxEntities == 2
MaxStoreTime == 1
MaxStrength == 2
MaxUpserts == 13
MaxThreadMsgs == 2
MaxSummaryMsgs == 3
MaxStamp == 2
NumProcs == 2

Threads == 1..NumThreads

(***************************************************************************)
(* Program constants                                                       *)
(***************************************************************************)
\* 24 hours (86400000 ms) in units of 12 hours
DayUnits == 2
\* maxResults of the STARRED listing
MaxResults == 10

(***************************************************************************)
(* From headers, by the identity substrings they contain                   *)
(***************************************************************************)
FromMe == "me"          \* contains 'me@' or 'your.email@'
FromSofia == "sofia"    \* contains 'sofia' only
FromOther == "other"    \* contains none of the three
FromNone == "none"      \* the message has no From header

\* a test of get_latest_message_in_thread that would know 'sofia' only
IsAgentLatestCheckSofiaOnly(f) == f = FromSofia

\* the test of get_latest_message_in_thread
IsAgentLatestCheck(f) == f \in {FromMe, FromSofia}

\* the test of has_been_replied_to_by_agent
IsAgentRepliedCheck(f) == f = FromMe

NoMsg == 0

Min(a, b) == IF a <= b THEN a ELSE b

(***************************************************************************)
(* The mailbox: msgs is the listing of all messages in mailbox order; a    *)
(* message id is its position.  ThreadListing is threads().get             *)
(***************************************************************************)
RECURSIVE IdsOfThread(_, _, _)
IdsOfThread(m, t, i) ==
    IF i > Len(m) THEN <<>>
    ELSE IF m[i].thread = t THEN <<i>> \o IdsOfThread(m, t, i + 1)
    ELSE IdsOfThread(m, t, i + 1)

ThreadListing(m, t) == IdsOfThread(m, t, 1)

\* list.sort(key=internalDate, reverse=True): a stable sort, so messages
\* with equal internalDate keep their listing order
RECURSIVE InsertDesc(_, _, _)
InsertDesc(m, s, x) ==
    IF s = <<>> THEN <<x>>
    ELSE IF m[Head(s)].date >= m[x].date
         THEN <<Head(s)>> \o InsertDesc(m, Tail(s), x)
         ELSE <<x>> \o s

RECURSIVE SortDesc(_, _)
SortDesc(m, s) ==
    IF s = <<>> THEN <<>>
    ELSE InsertDesc(m, SortDesc(m, SubSeq(s, 1, Len(s) - 1)), s[Len(s)])

HasUnread(m, s) == \E i \in 1..Len(s) : m[s[i]].unread

IsRecent(m, x, t) == t - m[x].date < DayUnits

\* a From test that would not know 'sofia'
LatestIsAgentWithoutSofia(m, latest) == IsAgentRepliedCheck(m[latest].from)

\* the From test on the latest message: a match returns (latest, False)
LatestIsAgent(m, latest) == IsAgentLatestCheck(m[latest].from)

\* a decision that would let a recent thread through
ShouldProcessUnreadOrRecent(has_unread, is_recent) == has_unread \/ is_recent

\* should_process = has_unread; is_recent is only logged
ShouldProcess(has_unread, is_recent) == has_unread

\* a get_latest_message_in_thread whose exceptions would not be caught as
\* (None, False): the result is that of the calls that went through
get_latest_message_in_thread_uncaught(m, id, t, fail) ==
    LET sorted == SortDesc(m, ThreadListing(m, m[id].thread))
        latest == sorted[1]
        has_unread == HasUnread(m, sorted)
        is_recent == IsRecent(m, latest, t)
    IN  IF LatestIsAgent(m, latest)
        THEN [latest |-> latest, should_process |-> FALSE,
              has_unread |-> FALSE, is_recent |-> FALSE]
        ELSE [latest |-> latest,
              should_process |-> ShouldProcess(has_unread, is_recent),
              has_unread |-> has_unread, is_recent |-> is_recent]

\* get_latest_message_in_thread(message_id) on mailbox m at time t; fail is
\* a mailbox call raising.  Returns the latest message id (NoMsg for None),
\* should_process, and the values it logs.
get_latest_message_in_thread(m, id, t, fail) ==
    LET sorted == SortDesc(m, ThreadListing(m, m[id].thread))
        none == [latest |-> NoMsg, should_process |-> FALSE,
                 has_unread |-> FALSE, is_recent |-> FALSE]
    IN  IF fail \/ sorted = <<>> THEN none
        ELSE LET latest == sorted[1]
                 has_unread == HasUnread(m, sorted)
                 is_recent == IsRecent(m, latest, t)
             IN  IF LatestIsAgent(m, latest)
                 THEN [latest |-> latest, should_process |-> FALSE,
                       has_unread |-> FALSE, is_recent |-> FALSE]
                 ELSE [latest |-> latest,
                       should_process |-> ShouldProcess(has_unread, is_recent),
                       has_unread |-> has_unread, is_recent |-> is_recent]

\* a From test that would look at every message of the thread
AnyIsAgentReply(m, sorted) ==
    \E i \in 1..Len(sorted) : IsAgentRepliedCheck(m[sorted[i]].from)

\* the From test of has_been_replied_to_by_agent, on the latest message
LatestIsAgentReply(m, sorted) == IsAgentRepliedCheck(m[sorted[1]].from)

\* has_been_replied_to_by_agent(message_id)
has_been_replied_to_by_agent(m, id, fail) ==
    LET sorted == SortDesc(m, ThreadListing(m, m[id].thread))
    IN  IF fail THEN FALSE
        ELSE IF Len(sorted) <= 1 THEN FALSE
        ELSE LatestIsAgentReply(m, sorted)

(***************************************************************************)
(* The mailbox collaborator                                                *)
(***************************************************************************)
Message(t, d, f, u, st, se, c) ==
    [thread |-> t, date |-> d, from |-> f, unread |-> u, starred |-> st,
     sent |-> se, content |-> c]

\* messages().send: the reply joins the thread, carries the SENT label and
\* the From header of the account
SentReply(t, d, f) == Message(t, d, f, FALSE, FALSE, TRUE, TRUE)

\* messages().modify(removeLabelIds=['STARRED'])
RemoveStar(m, id) == [m EXCEPT ![id].starred = FALSE]

\* remove_star_from_email: a failing modify is caught and reported as False
remove_star_from_email(m, id, fail) == IF fail THEN m ELSE RemoveStar(m, id)

StarredIds(m) == {i \in 1..Len(m) : m[i].starred}

\* messages().list(labelIds=['STARRED'], maxResults=10): the listing is
\* newest first, so the ids returned are the MaxResults greatest ones
fetch_starred_emails(m) ==
    {i \in StarredIds(m) :
        Cardinality({j \in StarredIds(m) : j > i}) < MaxResults}

\* the recipient send_reply finds: the To header of a message with the
\* SENT label, else the From header
HasRecipient(m, id) == IF m[id].sent THEN TRUE ELSE m[id].from # FromNone

\* generate_response under wait_for(timeout=60): the generated text; an
\* "Error: ..." string for a status other than 200, a response without
\* choices[0].message or an exception; or asyncio.TimeoutError
GenFailures == {"error", "timeout"}
GenOutcomes == {"ok"} \cup GenFailures
SendFailures == {"none", "get", "send"}

\* what the latest step of main did: the thread of the iteration, the
\* outcome of generate_response when it was called, the mailbox failure of
\* the evaluation or of send_reply, whether a message was sent, whether sent_replies was
\* incremented, and the outcome of the star removal when it was attempted
NoLast == [step |-> "none", thread |-> 0, gen |-> "none", err |-> "none",
           delivered |-> FALSE, counted |-> FALSE, unstar |-> "none"]

NoCur == [email |-> NoMsg, latest |-> NoMsg]

\* the mail other people send in the runs of Spec: a From header of
\* somebody else and a body, any labels
ExtKinds ==
    [from : {FromOther}, unread : BOOLEAN, starred : BOOLEAN, content : {TRUE}]

\* a message of somebody else arrives in thread t
Arrive(t, k) ==
    /\ Len(msgs) < MaxMsgs
    /\ msgs' = Append(msgs, Message(t, now, k.from, k.unread, k.starred,
                                    FALSE, k.content))
    /\ last' = NoLast
    /\ UNCHANGED <<now, agentFrom, pc, queue, cur, sent_replies, unstarFailed>>

\* the clock of the mailbox advances
Tick ==
    /\ now < MaxTime
    /\ now' = now + 1
    /\ last' = NoLast
    /\ UNCHANGED <<msgs, agentFrom, pc, queue, cur, sent_replies, unstarFailed>>

\* main: the starred emails are fetched and the loop starts
StartRun ==
    /\ pc = "idle"
    /\ queue' = fetch_starred_emails(msgs)
    /\ pc' = "loop"
    /\ sent_replies' = 0
    /\ cur' = NoCur
    /\ last' = NoLast
    /\ UNCHANGED <<msgs, now, agentFrom, unstarFailed>>

\* main, one iteration up to the should_process test; the emails are taken
\* in the order of the listing
Evaluate(e, fail) ==
    /\ pc = "loop"
    /\ e \in queue
    /\ \A x \in queue : x <= e
    /\ queue' = queue \ {e}
    /\ LET r == get_latest_message_in_thread(msgs, e, now, fail)
       IN  IF r.latest = NoMsg \/ ~r.should_process
           THEN /\ pc' = "loop"
                /\ cur' = NoCur
           ELSE /\ pc' = "check"
                /\ cur' = [email |-> e, latest |-> r.latest]
    /\ last' = [NoLast EXCEPT !.step = "eval", !.thread = msgs[e].thread,
                              !.err = IF fail THEN "eval" ELSE "none"]
    /\ UNCHANGED <<msgs, now, agentFrom, sent_replies, unstarFailed>>

\* main, the rest of the iteration: the already-replied test, the
\* generation, send_reply and the star removal
Act(gen, repFail, sendFail, starFail) ==
    /\ pc = "check"
    /\ pc' = "loop"
    /\ cur' = NoCur
    /\ LET e == cur.email
           l == cur.latest
           t == msgs[l].thread
           unstar == IF starFail THEN "fail" ELSE "ok"
           base == [NoLast EXCEPT !.step = "act", !.thread = t]
       IN  IF has_been_replied_to_by_agent(msgs, l, repFail)
           THEN /\ msgs' = remove_star_from_email(msgs, e, starFail)
                /\ sent_replies' = sent_replies
                /\ last' = [base EXCEPT !.unstar = unstar]
                /\ unstarFailed' = IF starFail THEN unstarFailed
                                   ELSE unstarFailed \ {e}
           ELSE IF ~msgs[l].content
           THEN /\ UNCHANGED <<msgs, sent_replies, unstarFailed>>
                /\ last' = base
           ELSE IF gen = "timeout"
           THEN /\ UNCHANGED <<msgs, sent_replies, unstarFailed>>
                /\ last' = [base EXCEPT !.gen = gen]
           ELSE IF sendFail = "get" \/ (HasRecipient(msgs, l) /\ sendFail = "send")
           THEN /\ UNCHANGED <<msgs, sent_replies, unstarFailed>>
                /\ last' = [base EXCEPT !.gen = gen, !.err = sendFail]
           ELSE IF ~HasRecipient(msgs, l)
           THEN /\ msgs' = remove_star_from_email(msgs, e, starFail)
                /\ sent_replies' = sent_replies + 1
                /\ last' = [base EXCEPT !.gen = gen, !.counted = TRUE,
                                        !.unstar = unstar]
                /\ unstarFailed' = IF starFail THEN unstarFailed
                                   ELSE unstarFailed \ {e}
           ELSE /\ Len(msgs) < MaxMsgs
                /\ msgs' = remove_star_from_email(
                              Append(msgs, SentReply(t, now, agentFrom)),
                              e, starFail)
                /\ sent_replies' = sent_replies + 1
                /\ last' = [base EXCEPT !.gen = gen, !.delivered = TRUE,
                                        !.counted = TRUE, !.unstar = unstar]
                /\ unstarFailed' = IF starFail THEN unstarFailed \cup {e}
                                   ELSE unstarFailed \ {e}
    /\ UNCHANGED <<now, agentFrom, queue>>

\* main: the loop is over, the result is built
FinishRun ==
    /\ pc = "loop"
    /\ queue = {}
    /\ pc' = "idle"
    /\ last' = NoLast
    /\ UNCHANGED <<msgs, now, agentFrom, queue, cur, sent_replies, unstarFailed>>

(***************************************************************************)
(* The conversation memory store.  A string is a sequence of characters;   *)
(* entities and relationships are the dicts of the store, functions from   *)
(* ids to records.  A strength is an IEEE 754 double, held as its exact     *)
(* value in units of 2^-56 in two limbs of 28 bits.  The metadata of a     *)
(* record is always empty here and is left out.                            *)
(***************************************************************************)
\* the names, types and aliases that callers pass: "a", "a b", "A B";
\* "p", "P"; " x"
NameStrings == {<<"a">>, <<"a", " ", "b">>, <<"A", " ", "B">>}
TypeStrings == {<<"p">>, <<"P">>}
AliasStrings == {<<" ", "x">>}
RelTypes == {<<"w">>}

\* the printable ASCII characters, from code point 32 (space) to 126; the
\* double quote, the backslash and the backtick are written out
AsciiChars ==
    <<
      " ", "!", "QUOTE", "#", "$", "%", "&", "'", "(", ")", "*", "+",
      ",", "-", ".", "/", "0", "1", "2", "3", "4", "5", "6", "7",
      "8", "9", ":", ";", "<", "=", ">", "?", "@", "A", "B", "C",
      "D", "E", "F", "G", "H", "I", "J", "K", "L", "M", "N", "O",
      "P", "Q", "R", "S", "T", "U", "V", "W", "X", "Y", "Z", "[",
      "BACKSLASH", "]", "^", "_", "BACKTICK", "a", "b", "c", "d", "e", "f", "g",
      "h", "i", "j", "k", "l", "m", "n", "o", "p", "q", "r", "s",
      "t", "u", "v", "w", "x", "y", "z", "{", "|", "}", "~"
    >>

\* the code points of the characters
CodePoints ==
    [c \in {AsciiChars[i] : i \in 1..Len(AsciiChars)} |->
        31 + (CHOOSE i \in 1..Len(AsciiChars) : AsciiChars[i] = c)]

\* the code point of a character, for the comparison of strings
CharCode(c) == CodePoints[c]

\* the lower case of the characters: "A".."Z" are the code points 65..90
LowerCases ==
    [c \in DOMAIN CodePoints |->
        IF CodePoints[c] \in 65..90 THEN AsciiChars[CodePoints[c] + 32 - 31]
        ELSE c]

\* str.lower()
LowerChar(c) == LowerCases[c]

Lower(s) == [i \in 1..Len(s) |-> LowerChar(s[i])]

\* str.replace(' ', '_')
ReplaceSpaces(s) == [i \in 1..Len(s) |-> IF s[i] = " " THEN "_" ELSE s[i]]

\* str.strip()
RECURSIVE LStrip(_)
LStrip(s) == IF s # <<>> /\ Head(s) = " " THEN LStrip(Tail(s)) ELSE s

RECURSIVE RStrip(_)
RStrip(s) ==
    IF s # <<>> /\ s[Len(s)] = " " THEN RStrip(SubSeq(s, 1, Len(s) - 1)) ELSE s

Strip(s) == RStrip(LStrip(s))

\* entity_id = f"{entity_type}_{name.lower().replace(' ', '_')}"
EntityIdKeepingCase(name, entity_type) ==
    entity_type \o <<"_">> \o ReplaceSpaces(name)

EntityId(name, entity_type) ==
    entity_type \o <<"_">> \o ReplaceSpaces(Lower(name))

\* Entity.add_alias on an alias set
add_alias(aliases, alias) ==
    IF alias # <<>> /\ Strip(alias) # <<>> THEN aliases \cup {Strip(alias)}
    ELSE aliases

\* the dict d with d[k] = v
Put(d, k, v) == [x \in DOMAIN d \cup {k} |-> IF x = k THEN v ELSE d[x]]

RECURSIVE AddAliases(_, _)
AddAliases(aliases, new) ==
    IF new = {} THEN aliases
    ELSE LET a == CHOOSE x \in new : TRUE
         IN  AddAliases(add_alias(aliases, a), new \ {a})

\* the record of an existing entity after update_seen and add_alias
UpdatedEntity(ent, t, aliases) ==
    [ent EXCEPT !.last_seen = t, !.aliases = AddAliases(ent.aliases, aliases)]

\* a dict keeps its items in insertion order: a record carries the number
\* of items the dict held when it was inserted
NextIndex(d) == Cardinality(DOMAIN d)

NewEntity(name, entity_type, aliases, t, n) ==
    [name |-> name, type |-> entity_type, aliases |-> aliases,
     first_seen |-> t, last_seen |-> t, index |-> n]

\* ConversationMemoryStore.add_entity at time t: the id returned and the
\* entities after the call
add_entity_suffixing(ents, t, name, entity_type, aliases) ==
    LET id == EntityId(name, entity_type)
    IN  IF id \in DOMAIN ents
        THEN [id |-> id \o <<"_">>,
              entities |-> Put(ents, id \o <<"_">>,
                               NewEntity(name, entity_type, aliases, t,
                                         NextIndex(ents)))]
        ELSE [id |-> id,
              entities |-> Put(ents, id,
                               NewEntity(name, entity_type, aliases, t,
                                         NextIndex(ents)))]

add_entity(ents, t, name, entity_type, aliases) ==
    LET id == EntityId(name, entity_type)
    IN  IF id \in DOMAIN ents
        THEN [id |-> id,
              entities |-> Put(ents, id, UpdatedEntity(ents[id], t, aliases))]
        ELSE [id |-> id,
              entities |-> Put(ents, id,
                               NewEntity(name, entity_type, aliases, t,
                                         NextIndex(ents)))]

\* the comparison of two strings by code points
RECURSIVE StrLeq(_, _)
StrLeq(a, b) ==
    IF a = <<>> THEN TRUE
    ELSE IF b = <<>> THEN FALSE
    ELSE IF CharCode(Head(a)) < CharCode(Head(b)) THEN TRUE
    ELSE IF CharCode(Head(a)) > CharCode(Head(b)) THEN FALSE
    ELSE StrLeq(Tail(a), Tail(b))

StrMin(a, b) == IF StrLeq(a, b) THEN a ELSE b
StrMax(a, b) == IF StrLeq(a, b) THEN b ELSE a

\* rel_id = f"{min(id1, id2)}_{max(id1, id2)}_{relationship_type}"
RelIdInCallOrder(e1, e2, rtype) == e1 \o <<"_">> \o e2 \o <<"_">> \o rtype

RelId(e1, e2, rtype) ==
    StrMin(e1, e2) \o <<"_">> \o StrMax(e1, e2) \o <<"_">> \o rtype

\* float arithmetic on strengths: a value is hi * 2^28 + lo units of 2^-56
Limb == 2^28

\* the doubles 0.0, 0.1 (0x1.999999999999ap-4) and 1.0
Zero == [hi |-> 0, lo |-> 0]
Tenth == [hi |-> 26843545, lo |-> 161061274]
One == [hi |-> Limb, lo |-> 0]

\* the exact sum of two values
ExactAdd(x, y) ==
    [hi |-> x.hi + y.hi + (x.lo + y.lo) \div Limb, lo |-> (x.lo + y.lo) % Limb]

\* the binary digits a value below 2.0 has beyond the 53 of a double
ExtraBits(x) ==
    IF x.hi < 2^25 THEN 0
    ELSE IF x.hi < 2^26 THEN 1
    ELSE IF x.hi < 2^27 THEN 2
    ELSE IF x.hi < 2^28 THEN 3
    ELSE 4

\* rounding to the nearest double, ties to even
Round(x) ==
    LET j == ExtraBits(x)
        ulp == 2^j
        r == x.lo % ulp
        down == x.lo - r
        up == IF 2 * r > ulp \/ (2 * r = ulp /\ (down \div ulp) % 2 = 1)
              THEN down + ulp ELSE down
    IN  [hi |-> x.hi + up \div Limb, lo |-> up % Limb]

\* x + y of two floats
FAdd(x, y) == Round(ExactAdd(x, y))

FLeq(x, y) == x.hi < y.hi \/ (x.hi = y.hi /\ x.lo <= y.lo)

\* min(x, y)
FMin(x, y) == IF FLeq(y, x) THEN y ELSE x

\* a strengthen without the cap
strengthenUncapped(strength) == FAdd(strength, Tenth)

\* Relationship.strengthen(amount = 0.1)
strengthen(strength) == FMin(One, FAdd(strength, Tenth))

NewRelationship(e1, e2, rtype, t, n) ==
    [entity1_id |-> e1, entity2_id |-> e2, relationship_type |-> rtype,
     strength |-> Zero, first_seen |-> t, last_seen |-> t, index |-> n]

\* an add_relationship that would not look at the entity store
add_relationship_unchecked(ents, rels, t, e1, e2, rtype) ==
    LET id == RelId(e1, e2, rtype)
    IN  IF id \in DOMAIN rels
        THEN [raised |-> FALSE, id |-> id,
              relationships |->
                  Put(rels, id, [rels[id] EXCEPT
                                    !.last_seen = t,
                                    !.strength = strengthen(rels[id].strength)])]
        ELSE [raised |-> FALSE, id |-> id,
              relationships |-> Put(rels, id, NewRelationship(e1, e2, rtype, t,
                                               NextIndex(rels)))]

\* ConversationMemoryStore.add_relationship at time t: whether ValueError
\* is raised, the id returned and the relationships after the call
add_relationship(ents, rels, t, e1, e2, rtype) ==
    LET id == RelId(e1, e2, rtype)
    IN  IF e1 \notin DOMAIN ents \/ e2 \notin DOMAIN ents
        THEN [raised |-> TRUE, id |-> <<>>, relationships |-> rels]
        ELSE IF id \in DOMAIN rels
        THEN [raised |-> FALSE, id |-> id,
              relationships |->
                  Put(rels, id, [rels[id] EXCEPT
                                    !.last_seen = t,
                                    !.strength = strengthen(rels[id].strength)])]
        ELSE [raised |-> FALSE, id |-> id,
              relationships |-> Put(rels, id, NewRelationship(e1, e2, rtype, t,
                                               NextIndex(rels)))]

\* the latest call on the store: the operation, whether it raised, and the
\* entity ids given to an add_relationship that returned, and the thread
\* id given to a call on a thread
NoRet == [op |-> "none", raised |-> FALSE, e1 |-> <<>>, e2 |-> <<>>,
          thread |-> <<>>]

\* the ids that callers pass to add_relationship, two different ones in
\* a call
CallerIds == {EntityId(n, ty) : n \in NameStrings, ty \in TypeStrings}

AddEntity(name, entity_type, aliases) ==
    LET r == add_entity(entities, storeClock, name, entity_type, aliases)
    IN  /\ Cardinality(DOMAIN r.entities) <= MaxEntities
        /\ entities' = r.entities
        /\ ret' = [NoRet EXCEPT !.op = "add_entity"]
        /\ UNCHANGED <<relationships, storeClock, upserts>>

\* upserts counts the add_relationship calls that returned, by id
Counted(ups, id) ==
    Put(ups, id, IF id \in DOMAIN ups THEN ups[id] + 1 ELSE 1)

AddRelationship(e1, e2, rtype) ==
    LET r == add_relationship(entities, relationships, storeClock, e1, e2, rtype)
    IN  /\ relationships' = r.relationships
        /\ upserts' = IF r.raised THEN upserts ELSE Counted(upserts, r.id)
        /\ ret' = IF r.raised
                  THEN [NoRet EXCEPT !.op = "add_relationship", !.raised = TRUE]
                  ELSE [NoRet EXCEPT !.op = "add_relationship",
                                     !.e1 = e1, !.e2 = e2]
        /\ UNCHANGED <<entities, storeClock>>

\* no edge has been upserted more than n times
UpsertsWithin(n) == \A id \in DOMAIN upserts : upserts[id] <= n

\* time.time() advances
StoreTick ==
    /\ storeClock < MaxStoreTime
    /\ storeClock' = storeClock + 1
    /\ ret' = NoRet
    /\ UNCHANGED <<entities, relationships, upserts>>

(***************************************************************************)
(* Threads and messages of the memory store                                *)
(***************************************************************************)
\* a in b, of two strings
IsSubstring(a, b) ==
    \E i \in 0..(Len(b) - Len(a)) : SubSeq(b, i + 1, i + Len(a)) = a

\* Entity.matches
matches(ent, text) ==
    \/ IsSubstring(Lower(ent.name), Lower(text))
    \/ \E alias \in ent.aliases : IsSubstring(Lower(alias), Lower(text))

\* the keys of a dict in insertion order
KeysInOrder(d) ==
    [i \in 1..Cardinality(DOMAIN d) |-> CHOOSE k \in DOMAIN d : d[k].index = i - 1]

\* the elements of a sequence that are in S, in order
RECURSIVE SelectIn(_, _)
SelectIn(keys, S) ==
    IF keys = <<>> THEN <<>>
    ELSE IF Head(keys) \in S THEN <<Head(keys)>> \o SelectIn(Tail(keys), S)
    ELSE SelectIn(Tail(keys), S)

Matching(ents, text) == {id \in DOMAIN ents : matches(ents[id], text)}

\* extract_entities_from_text at time t: the ids returned and the entities
\* after update_seen
extract_entities_from_text(ents, t, text) ==
    [ids |-> SelectIn(KeysInOrder(ents), Matching(ents, text)),
     entities |-> [id \in DOMAIN ents |->
                     IF id \in Matching(ents, text)
                     THEN [ents[id] EXCEPT !.last_seen = t] ELSE ents[id]]]

NewThread(subject, t, n) ==
    [subject |-> subject, participants |-> {}, messages |-> <<>>,
     last_updated |-> t, topics |-> <<>>, index |-> n]

\* an add_thread that would take the subject of every call
add_thread_overwriting(ths, t, thread_id, subject) ==
    IF thread_id \in DOMAIN ths
    THEN Put(ths, thread_id, [ths[thread_id] EXCEPT !.last_updated = t,
                                                    !.subject = subject])
    ELSE Put(ths, thread_id, NewThread(subject, t, NextIndex(ths)))

\* ConversationMemoryStore.add_thread at time t: the threads after the call
add_thread(ths, t, thread_id, subject) ==
    IF thread_id \in DOMAIN ths
    THEN Put(ths, thread_id, [ths[thread_id] EXCEPT !.last_updated = t])
    ELSE Put(ths, thread_id, NewThread(subject, t, NextIndex(ths)))

ConversationMessage(message_id, thread_id, sender, recipients, subject, content, timestamp, is_from_agent, entity_ids) ==
    [message_id |-> message_id, thread_id |-> thread_id, sender |-> sender,
     recipients |-> recipients, subject |-> subject, content |-> content,
     timestamp |-> timestamp, is_from_agent |-> is_from_agent,
     entities |-> entity_ids]

SeqRange(q) == {q[i] : i \in 1..Len(q)}

\* ConversationThread.add_message at time t
thread_add_message(thread, t, message) ==
    [thread EXCEPT
        !.messages = Append(@, message),
        !.participants = @ \cup {message.sender} \cup SeqRange(message.recipients),
        !.last_updated = t]

(***************************************************************************)
(* The persisted document: the JSON value that save writes, or no file, or *)
(* the beginning of a JSON text                                            *)
(***************************************************************************)
\* list(a set): the elements in some order
RECURSIVE SetToList(_)
SetToList(S) ==
    IF S = {} THEN <<>>
    ELSE LET x == CHOOSE y \in S : TRUE IN <<x>> \o SetToList(S \ {x})

EmptyData == [entities |-> <<>>, relationships |-> <<>>, threads |-> <<>>]

\* no file at storage_path
Missing == [state |-> "missing", data |-> EmptyData]
\* a file that holds the beginning of a JSON text
Truncated == [state |-> "truncated", data |-> EmptyData]

EntityData(ent) == [ent EXCEPT !.aliases = SetToList(@)]

ThreadData(thread) == [thread EXCEPT !.participants = SetToList(@)]

\* the data that save builds from the store
SaveData(ents, rels, ths) ==
    [entities |-> [id \in DOMAIN ents |-> EntityData(ents[id])],
     relationships |-> rels,
     threads |-> [id \in DOMAIN ths |-> ThreadData(ths[id])]]

\* save: the file after json.dump
save(ents, rels, ths) == [state |-> "document", data |-> SaveData(ents, rels, ths)]

\* a key that a record of the document lacks
Absent == <<"ABSENT">>

EntityDataOk(e) == e.name # Absent /\ e.type # Absent

RelationshipDataOk(r) ==
    /\ r.entity1_id # Absent
    /\ r.entity2_id # Absent
    /\ r.relationship_type # Absent

MessageDataOk(m) ==
    /\ m.message_id # Absent
    /\ m.sender # Absent
    /\ m.subject # Absent
    /\ m.content # Absent

ThreadDataOk(th) ==
    /\ th.subject # Absent
    /\ \A i \in 1..Len(th.messages) : MessageDataOk(th.messages[i])

\* the items of a section that load reaches: those before the first record
\* that lacks a required key
Reached(d, bad) ==
    {k \in DOMAIN d : \A b \in bad : d[k].index < d[b].index}

\* Entity(...) of load
LoadEntity(e) == [e EXCEPT !.aliases = SeqRange(@)]

\* a load that would keep the default of is_from_agent
LoadMessageWithoutFlag(m, thread_id) == [m EXCEPT !.is_from_agent = FALSE,
                                                  !.thread_id = thread_id]

\* ConversationMessage(...) of load
LoadMessage(m, thread_id) == [m EXCEPT !.thread_id = thread_id]

\* ConversationThread(...) of load and its messages
LoadThread(th, thread_id) ==
    [th EXCEPT !.participants = SeqRange(@),
               !.messages = [i \in 1..Len(@) |-> LoadMessage(@[i], thread_id)]]

\* a load that would give up before it fills the store
load_all_or_nothing(file) ==
    LET data == file.data
        ok == /\ file.state = "document"
              /\ \A k \in DOMAIN data.entities : EntityDataOk(data.entities[k])
              /\ \A k \in DOMAIN data.relationships :
                    RelationshipDataOk(data.relationships[k])
              /\ \A k \in DOMAIN data.threads : ThreadDataOk(data.threads[k])
    IN  IF ~ok THEN EmptyData
        ELSE [entities |-> [k \in DOMAIN data.entities |->
                               LoadEntity(data.entities[k])],
              relationships |-> data.relationships,
              threads |-> [k \in DOMAIN data.threads |->
                              LoadThread(data.threads[k], k)]]

\* load into a store that __init__ has just emptied: the entities, the
\* relationships and the threads after it.  An exception ends it and is
\* caught; what was filled before stays.
load(file) ==
    LET data == file.data
        badE == {k \in DOMAIN data.entities : ~EntityDataOk(data.entities[k])}
        badR == {k \in DOMAIN data.relationships :
                    ~RelationshipDataOk(data.relationships[k])}
        badT == {k \in DOMAIN data.threads : ~ThreadDataOk(data.threads[k])}
        es == [k \in Reached(data.entities, badE) |->
                  LoadEntity(data.entities[k])]
        rs == [k \in Reached(data.relationships, badR) |->
                  data.relationships[k]]
        ts == [k \in Reached(data.threads, badT) |->
                  LoadThread(data.threads[k], k)]
    IN  IF file.state # "document" THEN EmptyData
        ELSE IF badE # {}
        THEN [entities |-> es, relationships |-> <<>>, threads |-> <<>>]
        ELSE IF badR # {}
        THEN [entities |-> es, relationships |-> rs, threads |-> <<>>]
        ELSE [entities |-> es, relationships |-> rs, threads |-> ts]

\* add_message at time t: the entities and the threads after the call; the
\* file is then written by save
add_message(ents, ths, t, message_id, thread_id, sender, recipients, subject, content, is_from_agent) ==
    LET ths1 == add_thread(ths, t, thread_id, subject)
        found == extract_entities_from_text(ents, t, content)
        message == ConversationMessage(message_id, thread_id, sender,
                                       recipients, subject, content, t,
                                       is_from_agent, found.ids)
    IN  [entities |-> found.entities,
         threads |-> Put(ths1, thread_id,
                         thread_add_message(ths1[thread_id], t, message))]

(***************************************************************************)
(* MemoryIntegration.process_email.  An email is given by its headers, its *)
(* cleaned content and the matches that re.findall returns on that content *)
(* for the organization, project, person and date patterns.                *)
(***************************************************************************)
PersonType == <<"p", "e", "r", "s", "o", "n">>
OrganizationType == <<"o", "r", "g", "a", "n", "i", "z", "a", "t", "i", "o", "n">>
ProjectType == <<"p", "r", "o", "j", "e", "c", "t">>
TopicType == <<"t", "o", "p", "i", "c">>

\* the lower case of the characters turned round
UpperChar(c) ==
    IF CodePoints[c] \in 97..122 THEN AsciiChars[CodePoints[c] - 32 - 31] ELSE c

\* str.capitalize()
Capitalize(s2) ==
    [i \in 1..Len(s2) |-> IF i = 1 THEN UpperChar(s2[i]) ELSE LowerChar(s2[i])]

\* the first position of character c in s2 from position i on, 0 for none
FindChar(s2, c, i) ==
    IF \E k \in i..Len(s2) : s2[k] = c
    THEN CHOOSE k \in i..Len(s2) : s2[k] = c /\ \A j \in i..(k - 1) : s2[j] # c
    ELSE 0

\* the last position of character c in s2, 0 for none
FindLastChar(s2, c) ==
    IF \E k \in 1..Len(s2) : s2[k] = c
    THEN CHOOSE k \in 1..Len(s2) : s2[k] = c /\ \A j \in (k + 1)..Len(s2) : s2[j] # c
    ELSE 0

StartsWith(s2, prefix) ==
    Len(prefix) <= Len(s2) /\ SubSeq(s2, 1, Len(prefix)) = prefix

EndsWith(s2, suffix) ==
    /\ Len(suffix) <= Len(s2)
    /\ SubSeq(s2, Len(s2) - Len(suffix) + 1, Len(s2)) = suffix

\* re.match(r'^([^<]+)', sender): the characters before the first "<",
\* stripped; no match for a sender that starts with "<"
SenderName(sender) ==
    LET lt == FindChar(sender, "<", 1)
    IN  IF sender = <<>> \/ lt = 1 THEN [matched |-> FALSE, name |-> <<>>]
        ELSE [matched |-> TRUE,
              name |-> Strip(IF lt = 0 THEN sender
                             ELSE SubSeq(sender, 1, lt - 1))]

\* re.search(r'<([^>]+)>', sender) at the first "<": the address
SenderAddress(sender) ==
    LET lt == FindChar(sender, "<", 1)
        gt == IF lt = 0 THEN 0 ELSE FindChar(sender, ">", lt + 1)
    IN  IF lt = 0 \/ gt <= lt + 1 THEN [matched |-> FALSE, email |-> <<>>]
        ELSE [matched |-> TRUE, email |-> SubSeq(sender, lt + 1, gt - 1)]

\* the endings of a domain that names no organization
PublicEndings ==
    {<<".", "c", "o", "m">>, <<".", "o", "r", "g">>, <<".", "n", "e", "t">>,
     <<".", "i", "o">>, <<".", "g", "o", "v">>, <<".", "e", "d", "u">>}

\* email.split('@')[-1]
DomainOf(email) == SubSeq(email, FindLastChar(email, "@") + 1, Len(email))

\* the organization that the domain of the sender names
DomainNamesOrg(domain) ==
    /\ domain # <<>>
    /\ FindChar(domain, ".", 1) # 0
    /\ \A e \in PublicEndings : ~EndsWith(domain, e)

\* domain.split('.')[0].capitalize()
DomainOrgName(domain) ==
    Capitalize(SubSeq(domain, 1, FindChar(domain, ".", 1) - 1))

\* the prefixes that the topic rule removes, in the order of the pattern
SubjectPrefixes == 
                   <<<<"R", "e">>, <<"F", "w", "d">>, <<"F", "W">>, <<"R", "E">>,
                   <<"F", "W", "D">>>>

\* re.sub(r'^(Re|Fwd|FW|RE|FWD):\s*', '', subject).strip()
CleanSubject(subject) ==
    LET hit == {i \in 1..Len(SubjectPrefixes) :
                   StartsWith(subject, SubjectPrefixes[i] \o <<":">>)}
    IN  IF hit = {} THEN Strip(subject)
        ELSE LET i == CHOOSE k \in hit : \A j \in hit : k <= j
             IN  Strip(SubSeq(subject, Len(SubjectPrefixes[i]) + 2, Len(subject)))

\* add_entity for every match of a rule that is longer than 3 characters
\* (a match of the person patterns holds a space or a full stop, so it is
\* never one of the common words of the person rule)
RECURSIVE AddFound(_, _, _, _)
AddFound(ents, t, found, entity_type) ==
    IF found = <<>> THEN ents
    ELSE LET name == Strip(Head(found))
         IN  AddFound(IF name # <<>> /\ Len(name) > 3
                      THEN add_entity(ents, t, name, entity_type, {}).entities
                      ELSE ents,
                      t, Tail(found), entity_type)

WorksAt == <<"w", "o", "r", "k", "s", "_", "a", "t">>

\* what a rule leaves when it raised nothing
NoRaise(ents, rels, ups) ==
    [raised |-> FALSE, entities |-> ents, relationships |-> rels,
     upserts |-> ups]

\* what a rule leaves after its add_relationship returned r
Related(ents, rels, ups, r) ==
    [raised |-> r.raised, entities |-> ents,
     relationships |-> r.relationships,
     upserts |-> IF r.raised THEN ups ELSE Counted(ups, r.id)]

\* the sender rule after the organization of the domain was added: the
\* works_at relationship between person_id and org_id
SenderWorksAt(ents2, rels, ups, t, person_id, org_id) ==
    Related(ents2, rels, ups,
            add_relationship(ents2, rels, t, person_id, org_id, WorksAt))

\* the sender rule after the person of the sender was added: the
\* organization that the domain of the address names
SenderOrganization(ents1, rels, ups, t, name, matched, domain) ==
    IF ~(matched /\ DomainNamesOrg(domain)) THEN NoRaise(ents1, rels, ups)
    ELSE SenderWorksAt(
             add_entity(ents1, t, DomainOrgName(domain), OrganizationType,
                        {}).entities,
             rels, ups, t,
             PersonType \o <<"_">> \o ReplaceSpaces(Lower(name)),
             OrganizationType \o <<"_">>
                 \o ReplaceSpaces(Lower(DomainOrgName(domain))))

\* the sender rule for the name n and the address a that the patterns find
SenderPerson(ents, rels, ups, t, sender, n, a) ==
    IF ~n.matched THEN NoRaise(ents, rels, ups)
    ELSE SenderOrganization(
             add_entity(ents, t, n.name, PersonType, {sender}).entities,
             rels, ups, t, n.name, a.matched, DomainOf(a.email))

\* the sender rule: the person of the sender, the organization of the
\* domain and the works_at relationship between them
SenderRule(ents, rels, ups, t, sender) ==
    SenderPerson(ents, rels, ups, t, sender, SenderName(sender),
                 SenderAddress(sender))

\* the date rule calls add_entity(date_str, "date", metadata=...), which
\* raises TypeError: add_entity has no parameter metadata
DateRuleRaises(found) == \E i \in 1..Len(found) : Strip(found[i]) # <<>>

\* the topic rule: the subject without its reply prefix
TopicRule(e4, t, subject, topic) ==
    IF subject # <<>> /\ topic # <<>>
    THEN add_entity(e4, t, topic, TopicType, {}).entities ELSE e4

\* the rules after the sender rule left s1: organizations, projects,
\* persons, the topic of the subject, and the date rule
RulesAfterSender(s1, t, email) ==
    IF s1.raised THEN s1
    ELSE [raised |-> DateRuleRaises(email.dates),
          entities |->
              TopicRule(
                  AddFound(AddFound(AddFound(s1.entities, t, email.orgs,
                                             OrganizationType),
                                    t, email.projects, ProjectType),
                           t, email.persons, PersonType),
                  t, email.subject, CleanSubject(email.subject)),
          relationships |-> s1.relationships, upserts |-> s1.upserts]

\* _extract_entities_from_email at time t
extract_entities_from_email(ents, rels, ups, t, email) ==
    RulesAfterSender(SenderRule(ents, rels, ups, t, email.from), t, email)

\* re.search(f"{name1}.*(?:verb|...).*{name2}", content) for names without
\* the special characters of a pattern
Search(content, name1, verbs, name2) ==
    \E i \in 1..Len(content), v \in verbs :
        /\ i + Len(name1) - 1 <= Len(content)
        /\ SubSeq(content, i, i + Len(name1) - 1) = name1
        /\ \E j \in (i + Len(name1))..Len(content) :
              /\ j + Len(v) - 1 <= Len(content)
              /\ SubSeq(content, j, j + Len(v) - 1) = v
              /\ IsSubstring(name2, SubSeq(content, j + Len(v), Len(content)))

\* the relationship patterns of a pair of entity types: the verbs of the
\* first and of the second pattern and the relationship types they give
RelationPatterns(type1, type2) ==
    IF type1 = PersonType /\ type2 = OrganizationType
    THEN <<[verbs |-> {<<"a", "t">>, <<"f", "r", "o", "m">>, <<"w", "i", "t", "h">>,
                      <<"f", "o", "r">>},
            rel |-> WorksAt],
           [verbs |-> {<<"l", "e", "a", "d", "s">>, <<"m", "a", "n", "a", "g", "e", "s">>,
                      <<"r", "u", "n", "s">>, <<"h", "e", "a", "d", "s">>},
            rel |-> <<"l", "e", "a", "d", "s">>]>>
    ELSE IF type1 = PersonType /\ type2 = ProjectType
    THEN <<[verbs |-> {<<"m", "a", "n", "a", "g", "e", "s">>, <<"l", "e", "a", "d", "s">>,
                      <<"r", "u", "n", "s">>, <<"w", "o", "r", "k", "s", " ", "o", "n">>},
            rel |-> <<"m", "a", "n", "a", "g", "e", "s">>],
           [verbs |-> {<<"c", "o", "n", "t", "r", "i", "b", "u", "t", "e", "s", " ", "t", "o">>,
                      <<"s", "u", "p", "p", "o", "r", "t", "s">>},
            rel |-> <<"c", "o", "n", "t", "r", "i", "b", "u", "t", "e", "s", "_", "t", "o">>]>>
    ELSE IF type1 = PersonType /\ type2 = PersonType
    THEN <<[verbs |-> {<<"m", "a", "n", "a", "g", "e", "s">>,
                      <<"s", "u", "p", "e", "r", "v", "i", "s", "e", "s">>,
                      <<"l", "e", "a", "d", "s">>},
            rel |-> <<"m", "a", "n", "a", "g", "e", "s">>],
           [verbs |-> {<<"c", "o", "l", "l", "e", "a", "g", "u", "e">>,
                      <<"c", "o", "w", "o", "r", "k", "e", "r">>,
                      <<"t", "e", "a", "m", "m", "a", "t", "e">>},
            rel |-> <<"c", "o", "l", "l", "e", "a", "g", "u", "e", "_", "o", "f">>]>>
    ELSE IF type1 = OrganizationType /\ type2 = ProjectType
    THEN <<[verbs |-> {<<"s", "p", "o", "n", "s", "o", "r", "s">>, <<"f", "u", "n", "d", "s">>,
                      <<"s", "u", "p", "p", "o", "r", "t", "s">>},
            rel |-> <<"s", "p", "o", "n", "s", "o", "r", "s">>],
           [verbs |-> {<<"d", "e", "v", "e", "l", "o", "p", "s">>,
                      <<"c", "r", "e", "a", "t", "e", "s">>, <<"b", "u", "i", "l", "d", "s">>},
            rel |-> <<"d", "e", "v", "e", "l", "o", "p", "s">>]>>
    ELSE <<>>

\* the relationship type that the first matching pattern gives, <<>> for none
FirstRelation(pats, hit) ==
    IF hit = {} THEN <<>>
    ELSE pats[CHOOSE k \in hit : \A j \in hit : k <= j].rel

MatchingPatterns(pats, content, name1, name2) ==
    FirstRelation(pats, {i \in 1..Len(pats) :
                            Search(content, name1, pats[i].verbs, name2)})

RelationFound(ents, content, id1, id2) ==
    MatchingPatterns(RelationPatterns(ents[id1].type, ents[id2].type),
                     content, ents[id1].name, ents[id2].name)

\* the loop of _extract_relationships over the pairs (i, j) from n on, in
\* the order of the two for statements
RECURSIVE RelatePairs(_, _, _, _, _, _, _)
\* the body of the loop for the pair (id1, id2) and the relationship type
\* that the patterns give it
RelatePair(ents, rels, ups, t, content, ids, n, id1, id2, rtype) ==
    IF id1 = id2 \/ rtype = <<>>
    THEN RelatePairs(ents, rels, ups, t, content, ids, n + 1)
    ELSE IF id1 \notin DOMAIN ents \/ id2 \notin DOMAIN ents
    THEN [raised |-> TRUE, entities |-> ents, relationships |-> rels,
          upserts |-> ups]
    ELSE RelatePairs(ents,
                     add_relationship(ents, rels, t, id1, id2,
                                      rtype).relationships,
                     Counted(ups, RelId(id1, id2, rtype)), t, content, ids,
                     n + 1)

RelatePairs(ents, rels, ups, t, content, ids, n) ==
    IF Len(ids) = 0 \/ n >= Len(ids) * Len(ids) THEN NoRaise(ents, rels, ups)
    ELSE RelatePair(ents, rels, ups, t, content, ids, n,
                    ids[(n \div Len(ids)) + 1], ids[(n % Len(ids)) + 1],
                    RelationFound(ents, content, ids[(n \div Len(ids)) + 1],
                                  ids[(n % Len(ids)) + 1]))

\* the pairs of the entities that the content mentions
RelateFound(found, rels, ups, t, content) ==
    RelatePairs(found.entities, rels, ups, t, content, found.ids, 0)

\* _extract_relationships at time t
extract_relationships(ents, rels, ups, t, content) ==
    RelateFound(extract_entities_from_text(ents, t, content), rels, ups, t,
                content)

\* the topics that analyze_thread_topics looks for
CommonTopics ==
    <<<<"m", "e", "e", "t", "i", "n", "g">>,
     <<"p", "r", "o", "j", "e", "c", "t">>,
     <<"d", "e", "a", "d", "l", "i", "n", "e">>,
     <<"r", "e", "p", "o", "r", "t">>,
     <<"q", "u", "e", "s", "t", "i", "o", "n">>, <<"h", "e", "l", "p">>,
     <<"i", "s", "s", "u", "e">>, <<"p", "r", "o", "b", "l", "e", "m">>,
     <<"u", "p", "d", "a", "t", "e">>, <<"r", "e", "q", "u", "e", "s", "t">>,
     <<"i", "n", "f", "o", "r", "m", "a", "t", "i", "o", "n">>>>

RECURSIVE JoinContents(_)
JoinContents(messages) ==
    IF messages = <<>> THEN <<>>
    ELSE IF Len(messages) = 1 THEN messages[1].content
    ELSE messages[1].content \o <<" ">> \o JoinContents(Tail(messages))

\* analyze_thread_topics: the topics it finds and stores on the thread
analyze_thread_topics(thread) ==
    LET all_content == Lower(JoinContents(thread.messages))
    IN  SelectIn(CommonTopics,
                 {topic \in SeqRange(CommonTopics) : IsSubstring(topic, all_content)})

NoContent == <<"[", "N", "o", " ", "c", "o", "n", "t", "e", "n", "t", " ", "a", "v", "a", "i", "l", "a", "b", "l", "e", "]">>

\* the return of the except clause of process_email
Fallback(x, ths, saved) ==
    [fallback |-> TRUE, entities |-> x.entities,
     relationships |-> x.relationships, upserts |-> x.upserts,
     threads |-> ths, file |-> saved]

\* process_email after _extract_relationships left y: the topics
ProcessRelated(ths, saved, y, thread_id) ==
    IF y.raised THEN Fallback(y, ths, saved)
    ELSE [fallback |-> FALSE, entities |-> y.entities,
          relationships |-> y.relationships, upserts |-> y.upserts,
          threads |-> Put(ths, thread_id,
                          [ths[thread_id] EXCEPT
                              !.topics = analyze_thread_topics(ths[thread_id])]),
          file |-> saved]

\* process_email after _extract_entities_from_email left x
ProcessExtracted(ths, saved, x, t, email) ==
    IF x.raised THEN Fallback(x, ths, saved)
    ELSE ProcessRelated(ths, saved,
                        extract_relationships(x.entities, x.relationships,
                                              x.upserts, t, email.content),
                        email.threadId)

\* process_email after add_message left m and saved the store
ProcessStored(m, rels, ups, t, email) ==
    ProcessExtracted(m.threads, save(m.entities, rels, m.threads),
                     extract_entities_from_email(m.entities, rels, ups, t,
                                                 email),
                     t, email)

ProcessContent(ents, rels, ups, ths, t, email, is_from_agent) ==
    ProcessStored(add_message(ents, ths, t, email.id, email.threadId,
                              email.from, email.to, email.subject,
                              email.content, is_from_agent),
                  rels, ups, t, email)

\* process_email at time t: the store after the call, the file that
\* add_message saved, and whether the call returned the fallback of its
\* except clause
process_email(ents, rels, ups, ths, file, t, email, is_from_agent) ==
    ProcessContent(ents, rels, ups, ths, t,
                   [email EXCEPT !.content = IF @ = <<>> THEN NoContent ELSE @],
                   is_from_agent)

(***************************************************************************)
(* The calls on the memory store and its file                              *)
(***************************************************************************)
\* the emails that arrive:
\*   m1 in t1, From "Al Bo <al@zed.co>", Subject "Plan",
\*      "Al Bo leads project Apex"
\*   m2 in t1, From "Cy Di", Subject "Re: Plan", "due: May 5"
Emails ==
    {[id |-> <<"m", "1">>, threadId |-> <<"t", "1">>,
      from |-> <<"A", "l", " ", "B", "o", " ", "<", "a", "l", "@", "z", "e", "d", ".", "c", "o", ">">>,
      to |-> <<<<"m", "e", "@", "x", ".", "c", "o", "m">>>>,
      subject |-> <<"P", "l", "a", "n">>,
      content |-> <<"A", "l", " ", "B", "o", " ", "l", "e", "a", "d", "s", " ", "p", "r", "o", "j", "e", "c", "t", " ", "A", "p", "e", "x">>,
      orgs |-> <<>>,
      projects |-> <<<<"A", "p", "e", "x">>, <<"A", "p", "e", "x">>>>,
      persons |-> <<<<"A", "l", " ", "B", "o">>>>,
      dates |-> <<>>],
     [id |-> <<"m", "2">>, threadId |-> <<"t", "1">>,
      from |-> <<"C", "y", " ", "D", "i">>,
      to |-> <<<<"m", "e", "@", "x", ".", "c", "o", "m">>>>,
      subject |-> <<"R", "e", ":", " ", "P", "l", "a", "n">>,
      content |-> <<"d", "u", "e", ":", " ", "M", "a", "y", " ", "5">>,
      orgs |-> <<>>,
      projects |-> <<>>,
      persons |-> <<>>,
      dates |-> <<<<"M", "a", "y", " ", "5">>>>]}

\* the thread ids and subjects given to add_thread
ThreadIdStrings == {<<"t", "1">>, <<"t", "2">>}
SubjectStrings == {<<"R", "e", ":", " ", "P", "l", "a", "n">>}

\* is_from_agent as the caller gives it: m2 is a reply of the agent
FromAgent(email) == email.id = <<"m", "2">>

\* the ids given to add_relationship next to process_email: person_al_bo,
\* project_apex, and person_nobody, which names no entity
MemoryCallerIds ==
    {<<"p", "e", "r", "s", "o", "n", "_", "a", "l", "_", "b", "o">>,
     <<"p", "r", "o", "j", "e", "c", "t", "_", "a", "p", "e", "x">>,
     <<"p", "e", "r", "s", "o", "n", "_", "n", "o", "b", "o", "d", "y">>}

NoSummary == [max_messages |-> 0, lines |-> <<>>]

\* no call on the store is under way
NoProcs == <<>>

ThreadLen(ths, thread_id) ==
    IF thread_id \in DOMAIN ths THEN Len(ths[thread_id].messages) ELSE 0

ProcessEmail(email, is_from_agent) ==
    LET r == process_email(entities, relationships, upserts, threads, disk,
                           storeClock, email, is_from_agent)
    IN  /\ ThreadLen(threads, email.threadId) < MaxThreadMsgs
        /\ entities' = r.entities
        /\ relationships' = r.relationships
        /\ upserts' = r.upserts
        /\ threads' = r.threads
        /\ disk' = r.file
        /\ ret' = [NoRet EXCEPT !.op = "process_email", !.raised = r.fallback,
                                !.thread = email.threadId]
        /\ UNCHANGED <<storeClock, summary, procs>>

AddMessage(email, is_from_agent) ==
    LET r == add_message(entities, threads, storeClock, email.id,
                         email.threadId, email.from, email.to, email.subject,
                         email.content, is_from_agent)
    IN  /\ ThreadLen(threads, email.threadId) < MaxThreadMsgs
        /\ entities' = r.entities
        /\ threads' = r.threads
        /\ disk' = save(r.entities, relationships, r.threads)
        /\ ret' = [NoRet EXCEPT !.op = "add_message", !.thread = email.threadId]
        /\ UNCHANGED <<relationships, upserts, storeClock, summary, procs>>

AddThread(thread_id, subject) ==
    /\ threads' = add_thread(threads, storeClock, thread_id, subject)
    /\ ret' = [NoRet EXCEPT !.op = "add_thread", !.thread = thread_id]
    /\ UNCHANGED <<entities, relationships, upserts, storeClock, disk, summary, procs>>

\* a new process: __init__ empties the store and load fills it
Restart ==
    LET r == load(disk)
    IN  /\ entities' = r.entities
        /\ relationships' = r.relationships
        /\ threads' = r.threads
        /\ upserts' = [id \in DOMAIN r.relationships |-> 1]
        /\ ret' = [NoRet EXCEPT !.op = "load"]
        /\ UNCHANGED <<storeClock, disk, summary, procs>>

InitStore ==
    /\ entities = <<>>
    /\ relationships = <<>>
    /\ storeClock = 0
    /\ ret = NoRet
    /\ upserts = <<>>
    /\ threads = <<>>
    /\ disk = Missing
    /\ summary = NoSummary
    /\ procs = NoProcs

InitRunState ==
    /\ pc = "idle"
    /\ queue = {}
    /\ cur = NoCur
    /\ sent_replies = 0
    /\ last = NoLast
    /\ unstarFailed = {}

(***************************************************************************)
(* Spec: the runs of main against a mailbox that starts empty and in       *)
(* which the mail of other people arrives at any moment                    *)
(***************************************************************************)
Init ==
    /\ msgs = <<>>
    /\ now = 0
    /\ agentFrom \in {FromMe, FromSofia, FromOther}
    /\ InitRunState
    /\ InitStore

RunNext ==
    \/ StartRun /\ UNCHANGED <<storeVars, memVars>>
    \/ \E e \in queue, fail \in BOOLEAN :
          Evaluate(e, fail) /\ UNCHANGED <<storeVars, memVars>>
    \/ \E gen \in GenOutcomes, repFail \in BOOLEAN,
          sendFail \in SendFailures, starFail \in BOOLEAN :
          Act(gen, repFail, sendFail, starFail) /\ UNCHANGED <<storeVars, memVars>>
    \/ FinishRun /\ UNCHANGED <<storeVars, memVars>>

Next ==
    \/ \E t \in Threads, k \in ExtKinds : Arrive(t, k) /\ UNCHANGED <<storeVars, memVars>>
    \/ Tick /\ UNCHANGED <<storeVars, memVars>>
    \/ RunNext

Spec == Init /\ [][Next]_vars

(***************************************************************************)
(* SpecRun: the runs of main against any mailbox of at most MaxSnap        *)
(* messages, in any listing order, at the time MaxTime                     *)
(***************************************************************************)
\* the messages of somebody else carry any labels, the messages with a
\* From header of the system are read
SnapKinds ==
    [thread : Threads, date : 0..MaxTime, from : {FromOther},
     unread : BOOLEAN, starred : BOOLEAN]
    \cup [thread : Threads, date : 0..MaxTime, from : {FromMe, FromSofia},
          unread : {FALSE}, starred : BOOLEAN]

SnapMessage(k) ==
    Message(k.thread, k.date, k.from, k.unread, k.starred,
            IsAgentLatestCheck(k.from), TRUE)

InitRun ==
    /\ \E n \in 0..MaxSnap : \E f \in [1..n -> SnapKinds] :
          msgs = [i \in 1..n |-> SnapMessage(f[i])]
    /\ now = MaxTime
    /\ agentFrom = FromMe
    /\ InitRunState
    /\ InitStore

NextRun == RunNext

SpecRun == InitRun /\ [][NextRun]_vars

(***************************************************************************)
(* SpecStore: the calls on a memory store that starts empty                *)
(***************************************************************************)
InitStoreSpec ==
    /\ msgs = <<>>
    /\ now = 0
    /\ agentFrom = FromMe
    /\ InitRunState
    /\ InitStore

NextStore ==
    \/ \E n \in NameStrings, ty \in TypeStrings, al \in SUBSET AliasStrings :
          AddEntity(n, ty, al) /\ UNCHANGED <<mailVars, memVars>>
    \/ \E e1 \in CallerIds : \E e2 \in CallerIds \ {e1}, rt \in RelTypes :
          /\ AddRelationship(e1, e2, rt)
          /\ UpsertsWithin(MaxStrength + 1)'
          /\ UNCHANGED <<mailVars, memVars>>
    \/ StoreTick /\ UNCHANGED <<mailVars, memVars>>

SpecStore == InitStoreSpec /\ [][NextStore]_vars

(***************************************************************************)
(* The memory of the agent: emails are processed, threads are added, the   *)
(* process restarts                                                        *)
(***************************************************************************)
InitMemory ==
    /\ msgs = <<>>
    /\ now = 0
    /\ agentFrom = FromMe
    /\ InitRunState
    /\ InitStore

NextMemory ==
    \/ \E email \in Emails :
          ProcessEmail(email, FromAgent(email)) /\ UNCHANGED mailVars
    \/ \E email \in Emails :
          AddMessage(email, FromAgent(email)) /\ UNCHANGED mailVars
    \/ \E id \in ThreadIdStrings, subject \in SubjectStrings :
          AddThread(id, subject) /\ UNCHANGED mailVars
    \/ \E e1 \in MemoryCallerIds : \E e2 \in MemoryCallerIds \ {e1} :
          /\ AddRelationship(e1, e2, WorksAt)
          /\ UpsertsWithin(MaxStrength + 1)'
          /\ UNCHANGED <<mailVars, memVars>>
    \/ Restart /\ UNCHANGED mailVars
    \/ StoreTick /\ UNCHANGED <<mailVars, memVars>>

SpecMemory == InitMemory /\ [][NextMemory]_vars

(***************************************************************************)
(* One edge upserted many times: a store that holds two entities, and the  *)
(* add_relationship calls on it                                            *)
(***************************************************************************)
TwoEntities ==
    add_entity(add_entity(<<>>, 0, <<"a">>, <<"p">>, {}).entities,
               0, <<"a", " ", "b">>, <<"p">>, {}).entities

InitEdge ==
    /\ msgs = <<>>
    /\ now = 0
    /\ agentFrom = FromMe
    /\ InitRunState
    /\ entities = TwoEntities
    /\ relationships = <<>>
    /\ storeClock = 0
    /\ ret = NoRet
    /\ upserts = <<>>
    /\ threads = <<>>
    /\ disk = Missing
    /\ summary = NoSummary
    /\ procs = NoProcs

NextEdge ==
    \/ \E e1 \in CallerIds : \E e2 \in CallerIds \ {e1}, rt \in RelTypes :
          /\ AddRelationship(e1, e2, rt)
          /\ UpsertsWithin(MaxUpserts)'
          /\ UNCHANGED <<mailVars, memVars>>
    \/ StoreTick /\ UNCHANGED <<mailVars, memVars>>

SpecEdge == InitEdge /\ [][NextEdge]_vars

(***************************************************************************)
(* Properties of the reply loop                                            *)
(***************************************************************************)
SameThread(i, j) == msgs[i].thread = msgs[j].thread

\* the step sends a reply in thread t
ReplySentIn(t) ==
    /\ Len(msgs') = Len(msgs) + 1
    /\ msgs'[Len(msgs')].sent
    /\ msgs'[Len(msgs')].thread = t

\* no message of somebody else is listed in the thread of i after i
NoExternalAfter(i) ==
    \A k \in (i + 1)..Len(msgs) : SameThread(i, k) => msgs[k].sent

\* C1: with replies whose From header the identity check recognizes, no
\* thread holds two replies of the system without a message of somebody
\* else arrived between them (msgs lists the messages in arrival order).
C1_NoDuplicateReply ==
    IsAgentLatestCheck(agentFrom) =>
        \A i, j \in 1..Len(msgs) :
            (i < j /\ SameThread(i, j) /\ msgs[i].sent /\ msgs[j].sent) =>
                \E k \in (i + 1)..(j - 1) : SameThread(i, k) /\ ~msgs[k].sent

\* C2: once the star removal has failed after a sent reply, no step sends
\* another reply in that thread while no message of somebody else has
\* arrived after the reply.
C2_NoSecondReplyAfterStarFailure ==
    [][\A e \in unstarFailed :
          (\E r \in (e + 1)..Len(msgs) :
              SameThread(e, r) /\ msgs[r].sent /\ NoExternalAfter(r))
          => ~ReplySentIn(msgs[e].thread)]_vars

\* C3: an iteration whose generate_response call fails sends no message,
\* does not count a reply and removes no star.
C3_FailedGenerationSendsNothing ==
    [][(pc = "check" /\ last'.step = "act" /\ last'.gen \in GenFailures) =>
          /\ Len(msgs') = Len(msgs)
          /\ sent_replies' = sent_replies
          /\ StarredIds(msgs') = StarredIds(msgs)]_vars

(***************************************************************************)
(* Properties of the thread evaluation                                     *)
(***************************************************************************)
ThreadIds(t) == {i \in 1..Len(msgs) : msgs[i].thread = t}

\* some message of thread t, to name the thread in a call
AnyIdOf(t) == CHOOSE i \in ThreadIds(t) : TRUE

\* the messages of thread t with the greatest internalDate
Newest(t) ==
    {i \in ThreadIds(t) : \A j \in ThreadIds(t) : msgs[j].date <= msgs[i].date}

\* the From headers that match the identity of the system
SystemIdentity == {FromMe, FromSofia}

FromSystem(i) == msgs[i].from \in SystemIdentity

ThreadHasUnread(t) == \E i \in ThreadIds(t) : msgs[i].unread

\* the times at which a thread may be evaluated
EvalTimes == 0..(MaxTime + DayUnits)

\* C4: for a thread whose latest message is not from the system, evaluated
\* without a mailbox failure, should_process is true exactly when some
\* message of the thread is UNREAD, at whatever time it is evaluated; main
\* goes on to the reply exactly in that case.
C4_UnreadAloneDecides ==
    (last.step = "eval" /\ last.err = "none") =>
        LET t == last.thread
            r == get_latest_message_in_thread(msgs, AnyIdOf(t), now, FALSE)
        IN  (r.latest # NoMsg /\ ~FromSystem(r.latest)) =>
                /\ \A u \in EvalTimes :
                      get_latest_message_in_thread(msgs, AnyIdOf(t), u, FALSE)
                          .should_process <=> ThreadHasUnread(t)
                /\ pc = "check" <=> ThreadHasUnread(t)

\* an unread thread whose latest message is older than 24 hours has been
\* evaluated and is processed
C4_Witness ==
    /\ last.step = "eval"
    /\ pc = "check"
    /\ ~FromSystem(cur.latest)
    /\ ~IsRecent(msgs, cur.latest, now)

\* every message with the greatest internalDate of thread t is from the system
AgentIsLatest(t) == ThreadIds(t) # {} /\ \A i \in Newest(t) : FromSystem(i)

\* C5: when the latest message of a thread is from the system,
\* should_process is false whatever the labels, and the iteration of main
\* on an email of that thread ends without a reply.
C5_AgentLatestSkips ==
    /\ [](\A t \in Threads :
            AgentIsLatest(t) =>
                ~get_latest_message_in_thread(msgs, AnyIdOf(t), now, FALSE)
                    .should_process)
    /\ [][(pc = "loop" /\ last'.step = "eval" /\ AgentIsLatest(last'.thread)) =>
             (pc' = "loop" /\ msgs' = msgs)]_vars

\* main has evaluated an email of a thread with an UNREAD message whose
\* latest message is from the system, and goes on with the next email
C5_Witness ==
    /\ last.step = "eval"
    /\ last.err = "none"
    /\ pc = "loop"
    /\ AgentIsLatest(last.thread)
    /\ ThreadHasUnread(last.thread)

\* the messages S are [external, agent, external-unread] in timestamp order
Reopened(S) ==
    /\ Cardinality(S) = 3
    /\ \E c \in S : \E b \in S \ {c} : \E a \in S \ {b, c} :
        /\ msgs[a].date < msgs[b].date /\ msgs[b].date < msgs[c].date
        /\ ~FromSystem(a) /\ FromSystem(b) /\ ~FromSystem(c)
        /\ msgs[c].unread

\* C6: for a thread [external, agent, external-unread] in timestamp order,
\* should_process is true, has_been_replied_to_by_agent is false, and the
\* iteration of main sends a reply when the generation and the mailbox
\* calls succeed.
C6_NewExternalReopens ==
    /\ [](\A t \in Threads :
            Reopened(ThreadIds(t)) =>
                /\ get_latest_message_in_thread(msgs, AnyIdOf(t), now, FALSE)
                      .should_process
                /\ ~has_been_replied_to_by_agent(msgs, AnyIdOf(t), FALSE))
    /\ [][(/\ pc = "check"
           /\ last'.step = "act"
           /\ Reopened(ThreadIds(last'.thread))
           /\ msgs[cur.latest].content
           /\ HasRecipient(msgs, cur.latest)
           /\ last'.gen = "ok"
           /\ last'.err = "none") => ReplySentIn(last'.thread)]_vars

\* main has sent a reply in a thread that was [external, agent,
\* external-unread]
C6_Witness ==
    /\ last.step = "act"
    /\ last.delivered
    /\ msgs[Len(msgs)].sent
    /\ msgs[Len(msgs)].thread = last.thread
    /\ Reopened(ThreadIds(last.thread) \ {Len(msgs)})

\* the message of thread t listed last among those with the greatest
\* internalDate
LaterListedNewest(t) == CHOOSE i \in Newest(t) : \A j \in Newest(t) : j <= i

\* C7: among messages with the same internalDate the one listed later is
\* treated as the latest, by both functions.
C7_LaterListedWinsTie ==
    (last.step = "eval" /\ last.err = "none") =>
        LET t == last.thread
        IN  /\ get_latest_message_in_thread(msgs, AnyIdOf(t), now, FALSE).latest
                  = LaterListedNewest(t)
            /\ (Cardinality(ThreadIds(t)) > 1 =>
                  (has_been_replied_to_by_agent(msgs, AnyIdOf(t), FALSE)
                      <=> IsAgentRepliedCheck(msgs[LaterListedNewest(t)].from)))

(***************************************************************************)
(* Properties of the memory store                                          *)
(***************************************************************************)
\* C8: from every state of the store, two add_entity calls with the same
\* (name, type) return the same id and the second adds no record; every
\* record is stored under the id of its own (name, type), so no two records
\* stand for the same id.
C8_UpsertIdempotent ==
    /\ \A n \in NameStrings, ty \in TypeStrings :
          \A al1, al2 \in SUBSET AliasStrings :
             LET first == add_entity(entities, storeClock, n, ty, al1)
                 second == add_entity(first.entities, storeClock, n, ty, al2)
             IN  /\ second.id = first.id
                 /\ DOMAIN second.entities = DOMAIN first.entities
    /\ \A id \in DOMAIN entities :
          entities[id].type \o <<"_">> \o ReplaceSpaces(Lower(entities[id].name))
              = id

\* add_entity has been called on an entity the store already held
C8_Witness ==
    /\ ret.op = "add_entity"
    /\ \E id \in DOMAIN entities :
          entities[id].last_seen > entities[id].first_seen

\* C9 as stated: the id is lowercase(type) + "_" + lowercase(name) with
\* spaces replaced, and records whose types differ only in letter case
\* (names equal ignoring case) are one record.
C9_IdLowercasesType ==
    /\ \A id \in DOMAIN entities :
          id = Lower(entities[id].type) \o <<"_">>
                   \o ReplaceSpaces(Lower(entities[id].name))
    /\ \A i, j \in DOMAIN entities :
          (/\ Lower(entities[i].type) = Lower(entities[j].type)
           /\ Lower(entities[i].name) = Lower(entities[j].name)) => i = j

\* C9 amended: the id is the type as passed + "_" + lowercase(name) with
\* spaces replaced; two calls with the same type and names equal ignoring
\* case resolve to one record, two calls whose types differ in letter case
\* to two.
C9_IdKeepsTypeCase ==
    /\ \A id \in DOMAIN entities :
          id = entities[id].type \o <<"_">>
                   \o ReplaceSpaces(Lower(entities[id].name))
    /\ \A n1, n2 \in NameStrings, ty \in TypeStrings :
          Lower(n1) = Lower(n2) =>
             LET first == add_entity(entities, storeClock, n1, ty, {})
                 second == add_entity(first.entities, storeClock, n2, ty, {})
             IN  /\ second.id = first.id
                 /\ DOMAIN second.entities = DOMAIN first.entities
    /\ \A n \in NameStrings, ty1, ty2 \in TypeStrings :
          (ty1 # ty2 /\ Lower(ty1) = Lower(ty2)) =>
             add_entity(entities, storeClock, n, ty1, {}).id
                 # add_entity(entities, storeClock, n, ty2, {}).id

\* the store holds two records whose types differ only in letter case and
\* whose names are equal ignoring case
C9_Witness ==
    /\ ret.op = "add_entity"
    /\ \E i, j \in DOMAIN entities :
          /\ i # j
          /\ Lower(entities[i].type) = Lower(entities[j].type)
          /\ Lower(entities[i].name) = Lower(entities[j].name)

Endpoints(rel) == {rel.entity1_id, rel.entity2_id}

\* C10: from every state, add_relationship(a, b, t) and then
\* add_relationship(b, a, t) on stored entities return the same id, the
\* second call adds no record and strengthens the record of the first by
\* one step; the store never holds two records for the same pair and type.
C10_RelationshipSymmetric ==
    /\ \A a, b \in DOMAIN entities, t \in RelTypes :
          LET first == add_relationship(entities, relationships, storeClock,
                                        a, b, t)
              second == add_relationship(entities, first.relationships,
                                         storeClock, b, a, t)
          IN  /\ ~first.raised /\ ~second.raised
              /\ second.id = first.id
              /\ DOMAIN second.relationships = DOMAIN first.relationships
              /\ second.relationships[second.id].strength
                    = FMin(One,
                           FAdd(first.relationships[first.id].strength, Tenth))
              /\ Endpoints(second.relationships[second.id]) = {a, b}
    /\ \A i, j \in DOMAIN relationships :
          (/\ Endpoints(relationships[i]) = Endpoints(relationships[j])
           /\ relationships[i].relationship_type
                 = relationships[j].relationship_type) => i = j

\* the latest call, add_relationship(b, a, t), has strengthened the record
\* that add_relationship(a, b, t) created
C10_Witness ==
    /\ ret.op = "add_relationship"
    /\ ~ret.raised
    /\ ret.e1 # ret.e2
    /\ \E id \in DOMAIN relationships :
          /\ relationships[id].entity1_id = ret.e2
          /\ relationships[id].entity2_id = ret.e1
          /\ relationships[id].strength # Zero

(***************************************************************************)
(* Properties of the strength of a relationship                            *)
(***************************************************************************)
\* the exact value of n times 0.1
RECURSIVE ExactTimesTenth(_)
ExactTimesTenth(n) ==
    IF n = 0 THEN Zero ELSE ExactAdd(ExactTimesTenth(n - 1), Tenth)

\* the float 0.1 * n, for n up to 19
ProductOfTenth(n) == Round(ExactTimesTenth(n))

\* 0.0 after n float additions of 0.1, each capped at 1.0
RECURSIVE SumOfTenths(_)
SumOfTenths(n) ==
    IF n = 0 THEN Zero ELSE FMin(One, FAdd(SumOfTenths(n - 1), Tenth))

\* the distance of two floats in units of 2^-56, when it is below 2^28
Near(x, y, d) ==
    /\ x.hi - y.hi \in {-1, 0, 1}
    /\ (x.hi - y.hi) * Limb + (x.lo - y.lo) \in (0 - d)..d

C12_UnknownEntityRaises ==
    /\ [](\A e1, e2 \in CallerIds, rt \in RelTypes :
            (e1 \notin DOMAIN entities \/ e2 \notin DOMAIN entities) =>
                LET r == add_relationship(entities, relationships, storeClock,
                                          e1, e2, rt)
                IN  r.raised /\ r.relationships = relationships)
    /\ [][(ret'.op = "add_relationship" /\ ret'.raised) =>
             (entities' = entities /\ relationships' = relationships)]_vars

\* add_relationship has raised on a store that holds a relationship
C12_Witness ==
    /\ ret.op = "add_relationship"
    /\ ret.raised
    /\ relationships # <<>>

(***************************************************************************)
(* Properties of the store under process_email, its file and its threads   *)
(***************************************************************************)
\* C13: in every state reached from the empty store through add_entity,
\* add_relationship, add_message and process_email, both endpoint ids of
\* every stored relationship are ids of stored entities.
C13_EndpointsAreStored ==
    \A id \in DOMAIN relationships :
        /\ relationships[id].entity1_id \in DOMAIN entities
        /\ relationships[id].entity2_id \in DOMAIN entities

\* process_email has stored the works_at relationship of a sender, and a
\* later add_relationship with an unknown id has raised
C13_Witness ==
    /\ ret.op = "add_relationship"
    /\ ret.raised
    /\ \E id \in DOMAIN relationships :
          /\ relationships[id].relationship_type = WorksAt
          /\ ~(Endpoints(relationships[id]) \subseteq MemoryCallerIds)

\* the store as load leaves it in a fresh store
Store(ents, rels, ths) ==
    [entities |-> ents, relationships |-> rels, threads |-> ths]

\* C14: for every state of the store, save() followed by load() into a
\* fresh store yields the same entities (name, type, aliases, timestamps),
\* the same relationships (endpoints, type, strength) and per thread the
\* same subject, participants and message sequence with all message fields.
C14_RoundTrip ==
    load(save(entities, relationships, threads))
        = Store(entities, relationships, threads)

\* a fresh store has loaded a document that holds an entity with an alias,
\* a strengthened relationship and a thread with a message of the agent
C14_Witness ==
    /\ ret.op = "load"
    /\ \E id \in DOMAIN entities : entities[id].aliases # {}
    /\ \E id \in DOMAIN relationships : relationships[id].strength # Zero
    /\ \E id \in DOMAIN threads :
          /\ threads[id].participants # {}
          /\ \E i \in 1..Len(threads[id].messages) :
                threads[id].messages[i].is_from_agent

(***************************************************************************)
(* The context summary of a thread                                         *)
(***************************************************************************)
RECURSIVE InsertByTimestamp(_, _)
InsertByTimestamp(s, x) ==
    IF s = <<>> THEN <<x>>
    ELSE IF Head(s).timestamp <= x.timestamp
         THEN <<Head(s)>> \o InsertByTimestamp(Tail(s), x)
         ELSE <<x>> \o s

\* sorted(self.messages, key=lambda m: m.timestamp): ascending and stable
RECURSIVE SortedByTimestamp(_)
SortedByTimestamp(s) ==
    IF s = <<>> THEN <<>>
    ELSE InsertByTimestamp(SortedByTimestamp(SubSeq(s, 1, Len(s) - 1)),
                           s[Len(s)])

Max(a, b) == IF a >= b THEN a ELSE b

\* q[start:] of a list: a negative start counts from the end, and both are
\* clipped to the list
SliceFrom(q, start) ==
    LET from == IF start < 0 THEN Max(start + Len(q), 0)
                ELSE Min(start, Len(q))
    IN  SubSeq(q, from + 1, Len(q))

YouSofia == <<"Y", "o", "u", " ", "(", "S", "o", "f", "i", "a", ")">>

\* the three lines that get_context_summary writes for a message; the date
\* line is given by the timestamp it formats
SummaryLines(msg) ==
    [from |-> IF msg.is_from_agent THEN YouSofia ELSE msg.sender,
     date |-> msg.timestamp,
     content |-> msg.content]

\* ConversationThread.get_context_summary
get_context_summary(thread, max_messages) ==
    LET sorted_messages == SortedByTimestamp(thread.messages)
        recent_messages ==
            IF Len(sorted_messages) > max_messages
            THEN SliceFrom(sorted_messages, 0 - max_messages)
            ELSE sorted_messages
    IN  [subject |-> thread.subject,
         lines |-> [i \in 1..Len(recent_messages) |->
                       SummaryLines(recent_messages[i])]]

SummaryThreadId == <<"t", "1">>

\* the i-th message appended to the thread, with timestamp ts; the second
\* is a reply of the agent
SummaryMessage(i, ts) ==
    ConversationMessage(<<"m", ToString(i)>>, SummaryThreadId,
                        <<"A", "l">>, <<>>, <<"P", "l", "a", "n">>,
                        <<"c", ToString(i)>>, ts, i = 2, <<>>)

\* the threads whose messages were appended with any timestamps
SummaryThreads ==
    {[subject |-> <<"P", "l", "a", "n">>, participants |-> {<<"A", "l">>},
      messages |-> [i \in 1..Len(stamps) |-> SummaryMessage(i, stamps[i])],
      last_updated |-> 0, topics |-> <<>>, index |-> 0] :
        stamps \in UNION {[1..n -> 0..MaxStamp] : n \in 0..MaxSummaryMsgs}}

GetContextSummary(thread_id, max_messages) ==
    /\ thread_id \in DOMAIN threads
    /\ summary' = [max_messages |-> max_messages,
                   lines |-> get_context_summary(threads[thread_id],
                                                 max_messages).lines]
    /\ ret' = [NoRet EXCEPT !.op = "get_context_summary", !.thread = thread_id]
    /\ UNCHANGED <<entities, relationships, upserts, storeClock, threads, disk,
                   procs>>

InitSummary ==
    /\ msgs = <<>>
    /\ now = 0
    /\ agentFrom = FromMe
    /\ InitRunState
    /\ entities = <<>>
    /\ relationships = <<>>
    /\ storeClock = 0
    /\ ret = NoRet
    /\ upserts = <<>>
    /\ \E th \in SummaryThreads : threads = [k \in {SummaryThreadId} |-> th]
    /\ disk = Missing
    /\ summary = NoSummary
    /\ procs = NoProcs

NextSummary ==
    \E max_messages \in 0..(MaxSummaryMsgs + 1) :
        GetContextSummary(SummaryThreadId, max_messages) /\ UNCHANGED mailVars

SpecSummary == InitSummary /\ [][NextSummary]_vars

\* C15: for a thread with n messages and any max_messages >= 0,
\* get_context_summary renders exactly the min(n, max_messages) messages
\* with the greatest timestamps, in ascending timestamp order, whatever the
\* order in which they were appended.
C15_RendersLatestAscending ==
    ret.op = "get_context_summary" =>
        LET messages == threads[ret.thread].messages
            lines == summary.lines
            rendered == {lines[i].content : i \in 1..Len(lines)}
        IN  /\ Len(lines) = Min(Len(messages), summary.max_messages)
            /\ Cardinality(rendered) = Len(lines)
            /\ \A i, j \in 1..Len(lines) :
                  i < j => lines[i].date <= lines[j].date
            /\ \A i \in 1..Len(lines) :
                  \E k \in 1..Len(messages) :
                     /\ messages[k].content = lines[i].content
                     /\ messages[k].timestamp = lines[i].date
            /\ \A k \in 1..Len(messages) :
                  messages[k].content \notin rendered =>
                     \A i \in 1..Len(lines) :
                        messages[k].timestamp <= lines[i].date

\* the subjects that add_thread and add_message are called with
CalledSubjects == SubjectStrings \cup {email.subject : email \in Emails}

\* C16: add_thread on an existing thread id changes only last_updated: the
\* subject, participants, messages and topics of the thread stay whatever
\* subject is passed, so through add_thread, add_message and process_email
\* calls a thread keeps the subject of the call that created it.
C16_AddThreadKeepsThread ==
    /\ [](\A id \in DOMAIN threads, subject \in CalledSubjects :
            add_thread(threads, storeClock, id, subject)
                = [threads EXCEPT ![id].last_updated = storeClock])
    /\ [][(ret'.op = "add_thread" /\ ret'.thread \in DOMAIN threads) =>
             threads' = [threads EXCEPT ![ret'.thread].last_updated = storeClock]]_vars
    /\ [][ret'.op \in {"add_thread", "add_message", "process_email"} =>
             \A id \in DOMAIN threads :
                /\ id \in DOMAIN threads'
                /\ threads'[id].subject = threads[id].subject]_vars

\* add_thread has been called, at a later time and with another subject, on
\* a thread that holds a message
C16_Witness ==
    /\ ret.op = "add_thread"
    /\ ret.thread \in DOMAIN threads
    /\ LET thread == threads[ret.thread]
       IN  /\ thread.messages # <<>>
           /\ thread.subject \notin SubjectStrings
           /\ \A i \in 1..Len(thread.messages) :
                 thread.messages[i].timestamp < thread.last_updated

\* the ids of the entities that the organization, project and person rules
\* of _extract_entities_from_email derive from the content of an email
ContentEntityIds(email) ==
    {EntityId(Strip(email.orgs[i]), OrganizationType) :
        i \in {k \in 1..Len(email.orgs) : Len(Strip(email.orgs[k])) > 3}}
    \cup {EntityId(Strip(email.projects[i]), ProjectType) :
        i \in {k \in 1..Len(email.projects) : Len(Strip(email.projects[k])) > 3}}
    \cup {EntityId(Strip(email.persons[i]), PersonType) :
        i \in {k \in 1..Len(email.persons) : Len(Strip(email.persons[k])) > 3}}

\* the message that the latest call appended to its thread
LatestMessage == threads[ret.thread].messages[Len(threads[ret.thread].messages)]

\* C17: the entity id list stored on a message contains the id of every
\* entity that extraction derives from the content of that message,
\* including the entities first created while that message is processed.
C17_MessageListsItsEntities ==
    (ret.op = "process_email" /\ ~ret.raised) =>
        \A email \in Emails :
            email.id = LatestMessage.message_id =>
                /\ ContentEntityIds(email) \subseteq DOMAIN entities
                /\ ContentEntityIds(email) \subseteq SeqRange(LatestMessage.entities)

\* C18: when process_email returns, the persisted document reflects the
\* whole in-memory store: a fresh store loaded at that moment equals the
\* in-memory store, with every entity, relationship and thread topic that
\* processing the message produced.
C18_FileReflectsStore ==
    ret.op = "process_email" =>
        load(disk) = Store(entities, relationships, threads)

(***************************************************************************)
(* The file under interruption and under records that lack a key           *)
(***************************************************************************)
\* the points at which a save() may be interrupted: before open(path, 'w'),
\* while json.dump writes into the file that open has emptied, and after
\* the file was closed
SavePoints == {"before_open", "while_writing", "after_close"}

\* the file that a save() of the given store leaves when it is interrupted
interrupted_save(file, ents, rels, ths, point) ==
    IF point = "before_open" THEN file
    ELSE IF point = "while_writing" THEN Truncated
    ELSE save(ents, rels, ths)

\* every record of the document has its required keys
Loadable(file) == file.state = "document" /\ load_all_or_nothing(file) # EmptyData

\* the process ends while the save() of add_message runs; its store is gone
SaveInterrupted(email, is_from_agent, point) ==
    LET r == add_message(entities, threads, storeClock, email.id,
                         email.threadId, email.from, email.to, email.subject,
                         email.content, is_from_agent)
    IN  /\ ThreadLen(threads, email.threadId) < MaxThreadMsgs
        /\ disk' = interrupted_save(disk, r.entities, relationships, r.threads,
                                    point)
        /\ entities' = <<>>
        /\ relationships' = <<>>
        /\ threads' = <<>>
        /\ upserts' = <<>>
        /\ ret' = [NoRet EXCEPT !.op = "interrupted"]
        /\ UNCHANGED <<storeClock, summary, procs>>

\* the documents that differ from the file in one record, which lacks a
\* required key
DamagedFiles(file) ==
    {[file EXCEPT !.data.entities[id].name = Absent] :
        id \in DOMAIN file.data.entities}
    \cup {[file EXCEPT !.data.relationships[id].entity1_id = Absent] :
        id \in DOMAIN file.data.relationships}
    \cup {[file EXCEPT !.data.threads[id].subject = Absent] :
        id \in DOMAIN file.data.threads}
    \cup UNION {{[file EXCEPT !.data.threads[id].messages[i].content = Absent] :
                    i \in 1..Len(file.data.threads[id].messages)} :
                id \in DOMAIN file.data.threads}

\* the file is replaced, while no process runs, by a document with a record
\* that lacks a required key
Damage(file) ==
    /\ Loadable(disk)
    /\ file \in DamagedFiles(disk)
    /\ disk' = file
    /\ entities' = <<>>
    /\ relationships' = <<>>
    /\ threads' = <<>>
    /\ upserts' = <<>>
    /\ ret' = [NoRet EXCEPT !.op = "damaged"]
    /\ UNCHANGED <<storeClock, summary, procs>>

\* a process runs: the last step neither ended it nor replaced the file
Running == ret.op \notin {"interrupted", "damaged"}

\* no relationship is stronger than MaxStrength additions make it
StrengthsWithin(rels) ==
    \A id \in DOMAIN rels : FLeq(rels[id].strength, SumOfTenths(MaxStrength))

\* the emails that process_email handles to its end
DiskEmails == {email \in Emails : ~DateRuleRaises(email.dates)}

NextDisk ==
    \/ \E email \in DiskEmails :
          /\ Running
          /\ ProcessEmail(email, FromAgent(email))
          /\ StrengthsWithin(relationships')
          /\ UNCHANGED mailVars
    \/ \E email \in DiskEmails, point \in SavePoints :
          /\ Running
          /\ SaveInterrupted(email, FromAgent(email), point)
          /\ UNCHANGED mailVars
    \/ \E file \in DamagedFiles(disk) : Damage(file) /\ UNCHANGED mailVars
    \/ Restart /\ UNCHANGED mailVars

SpecDisk == InitMemory /\ [][NextDisk]_vars

\* C19: the persisted document is written all-or-nothing: when save() is
\* interrupted at any point, the document on disk equals either the
\* previous complete snapshot or the new complete snapshot, so a later load
\* never reads a truncated document and never loses the previous snapshot.
C19_SaveAllOrNothing ==
    /\ [][ret'.op = "interrupted" =>
             \/ disk' = disk
             \/ \E email \in DiskEmails :
                   LET r == add_message(entities, threads, storeClock,
                                        email.id, email.threadId, email.from,
                                        email.to, email.subject, email.content,
                                        FromAgent(email))
                   IN  disk' = save(r.entities, relationships, r.threads)]_vars
    /\ [](ret.op = "load" => disk.state # "truncated")

\* C20: when the persisted document is missing or cannot be parsed and
\* reconstructed (a record of any section lacks a required key), load()
\* leaves entities, relationships and threads all empty, never partially
\* populated.
C20_LoadAllOrNothing ==
    ret.op = "load" =>
        Store(entities, relationships, threads) = load_all_or_nothing(disk)

(***************************************************************************)
(* Two calls on the store at the same time.  The store has no lock: a      *)
(* call runs statement by statement, and another thread may run between    *)
(* the test of a key and the assignment, and between the read and the      *)
(* write of strength.                                                      *)
(***************************************************************************)
Procs == 1..NumProcs

\* the entity that the concurrent add_entity calls name, each with an alias
\* of its own; the store does not hold it
RaceName == <<"c">>
RaceType == <<"p">>
RaceAlias(p) == <<"x", ToString(p)>>

\* the edge that the concurrent add_relationship calls name
RaceEntity1 == <<"p", "_", "a">>
RaceEntity2 == <<"p", "_", "a", "_", "b">>
RaceRelType == <<"w">>
RaceRelId == RelId(RaceEntity1, RaceEntity2, RaceRelType)

Idle == [pc |-> "idle", op |-> "none", strength |-> Zero,
         entity |-> NewEntity(<<>>, <<>>, {}, 0, 0)]

\* thread p enters add_entity or add_relationship
Call(p, op) ==
    /\ procs[p].pc = "idle"
    /\ procs' = [procs EXCEPT ![p].pc = "check", ![p].op = op]
    /\ UNCHANGED <<storeVars, threads, disk, summary>>

\* add_entity up to the test of the key: the branch of an existing entity
\* updates it, the other branch constructs the Entity
EntityCheck(p) ==
    LET id == EntityId(RaceName, RaceType)
    IN  /\ procs[p].pc = "check"
        /\ procs[p].op = "add_entity"
        /\ IF id \in DOMAIN entities
           THEN /\ entities' = add_entity(entities, storeClock, RaceName,
                                          RaceType, {RaceAlias(p)}).entities
                /\ procs' = [procs EXCEPT ![p].pc = "done"]
                /\ ret' = [NoRet EXCEPT !.op = "add_entity"]
           ELSE /\ procs' = [procs EXCEPT
                                ![p].pc = "store",
                                ![p].entity = NewEntity(RaceName, RaceType,
                                                        {RaceAlias(p)},
                                                        storeClock, 0)]
                /\ UNCHANGED <<entities, ret>>
        /\ UNCHANGED <<relationships, storeClock, upserts, threads, disk,
                       summary>>

\* self.entities[entity_id] = entity: a key that is new goes to the end of
\* the dict, a key that is there keeps its place
EntityStore(p) ==
    LET id == EntityId(RaceName, RaceType)
        n == IF id \in DOMAIN entities THEN entities[id].index
             ELSE NextIndex(entities)
    IN  /\ procs[p].pc = "store"
        /\ procs[p].op = "add_entity"
        /\ entities' = Put(entities, id, [procs[p].entity EXCEPT !.index = n])
        /\ procs' = [procs EXCEPT ![p].pc = "done"]
        /\ ret' = [NoRet EXCEPT !.op = "add_entity"]
        /\ UNCHANGED <<relationships, storeClock, upserts, threads, disk,
                       summary>>

\* add_relationship up to the test of the key: the branch of an existing
\* relationship calls update_seen, the other constructs the Relationship
RelationshipCheck(p) ==
    /\ procs[p].pc = "check"
    /\ procs[p].op = "add_relationship"
    /\ RaceEntity1 \in DOMAIN entities /\ RaceEntity2 \in DOMAIN entities
    /\ upserts' = Counted(upserts, RaceRelId)
    /\ IF RaceRelId \in DOMAIN relationships
       THEN /\ relationships' = [relationships EXCEPT
                                    ![RaceRelId].last_seen = storeClock]
            /\ procs' = [procs EXCEPT ![p].pc = "read"]
       ELSE /\ procs' = [procs EXCEPT ![p].pc = "store"]
            /\ UNCHANGED relationships
    /\ UNCHANGED <<entities, storeClock, ret, threads, disk, summary>>

\* self.relationships[rel_id] = relationship
RelationshipStore(p) ==
    LET n == IF RaceRelId \in DOMAIN relationships
             THEN relationships[RaceRelId].index ELSE NextIndex(relationships)
    IN  /\ procs[p].pc = "store"
        /\ procs[p].op = "add_relationship"
        /\ relationships' = Put(relationships, RaceRelId,
                                NewRelationship(RaceEntity1, RaceEntity2,
                                                RaceRelType, storeClock, n))
        /\ procs' = [procs EXCEPT ![p].pc = "done"]
        /\ ret' = [NoRet EXCEPT !.op = "add_relationship", !.e1 = RaceEntity1,
                                !.e2 = RaceEntity2]
        /\ UNCHANGED <<entities, storeClock, upserts, threads, disk, summary>>

\* strengthen: min(1.0, self.strength + amount) is computed
StrengthRead(p) ==
    /\ procs[p].pc = "read"
    /\ procs' = [procs EXCEPT
                    ![p].pc = "write",
                    ![p].strength = strengthen(relationships[RaceRelId].strength)]
    /\ UNCHANGED <<storeVars, threads, disk, summary>>

\* strengthen: the value is assigned to self.strength
StrengthWrite(p) ==
    /\ procs[p].pc = "write"
    /\ relationships' = [relationships EXCEPT
                            ![RaceRelId].strength = procs[p].strength]
    /\ procs' = [procs EXCEPT ![p].pc = "done"]
    /\ ret' = [NoRet EXCEPT !.op = "add_relationship", !.e1 = RaceEntity1,
                            !.e2 = RaceEntity2]
    /\ UNCHANGED <<entities, storeClock, upserts, threads, disk, summary>>

\* the store holds the two entities of the edge, and the edge or not
InitRace ==
    /\ msgs = <<>>
    /\ now = 0
    /\ agentFrom = FromMe
    /\ InitRunState
    /\ entities = TwoEntities
    /\ \E before \in BOOLEAN :
          /\ relationships =
                IF before
                THEN add_relationship(TwoEntities, <<>>, 0, RaceEntity1,
                                      RaceEntity2, RaceRelType).relationships
                ELSE <<>>
          /\ upserts = IF before THEN Counted(<<>>, RaceRelId) ELSE <<>>
    /\ storeClock = 0
    /\ ret = NoRet
    /\ threads = <<>>
    /\ disk = Missing
    /\ summary = NoSummary
    /\ procs = [p \in Procs |-> Idle]

NextRace ==
    \/ \E p \in Procs, op \in {"add_entity", "add_relationship"} :
          Call(p, op) /\ UNCHANGED mailVars
    \/ \E p \in Procs : EntityCheck(p) /\ UNCHANGED mailVars
    \/ \E p \in Procs : EntityStore(p) /\ UNCHANGED mailVars
    \/ \E p \in Procs : RelationshipCheck(p) /\ UNCHANGED mailVars
    \/ \E p \in Procs : RelationshipStore(p) /\ UNCHANGED mailVars
    \/ \E p \in Procs : StrengthRead(p) /\ UNCHANGED mailVars
    \/ \E p \in Procs : StrengthWrite(p) /\ UNCHANGED mailVars
    \/ StoreTick /\ UNCHANGED <<mailVars, memVars>>

SpecRace == InitRace /\ [][NextRace]_vars

\* the threads that have returned from a call of op
Returned(op) == {p \in Procs : procs[p].pc = "done" /\ procs[p].op = op}

\* C21: under any interleaving of two concurrent add_relationship calls on
\* the same existing edge the strength reflects both increments, and under
\* any interleaving of two concurrent add_entity calls for the same new id
\* one record remains that holds the aliases of both calls.
C21_NoLostUpdate ==
    (\A p \in Procs : procs[p].pc = "done") =>
        /\ (/\ RaceRelId \in DOMAIN relationships
            /\ upserts[RaceRelId] = 1 + Cardinality(Returned("add_relationship")))
           => relationships[RaceRelId].strength
                 = SumOfTenths(Cardinality(Returned("add_relationship")))
        /\ Returned("add_entity") # {} =>
              /\ EntityId(RaceName, RaceType) \in DOMAIN entities
              /\ \A p \in Returned("add_entity") :
                    RaceAlias(p)
                        \in entities[EntityId(RaceName, RaceType)].aliases

\* C22: a failure inside one extraction rule contributes nothing for that
\* rule only: process_email still runs the remaining steps and the topic
\* analysis and returns their results, never the fallback of its except
\* clause.
C22_RuleFailureIsLocal ==
    ret.op = "process_email" =>
        /\ ~ret.raised
        /\ threads[ret.thread].topics
              = analyze_thread_topics(threads[ret.thread])

(***************************************************************************)
(* MemoryIntegration.get_memory_context                                    *)
(***************************************************************************)
NoHistory == "No previous conversation history available."

\* ConversationMemoryStore.get_thread_context: "" for an unknown thread
get_thread_context(ths, thread_id, max_messages) ==
    IF thread_id \in DOMAIN ths
    THEN [found |-> TRUE,
          summary |-> get_context_summary(ths[thread_id], max_messages)]
    ELSE [found |-> FALSE, summary |-> [subject |-> <<>>, lines |-> <<>>]]

\* the relationships that get_entity_info lists for an entity
RelatedEntities(ents, rels, id) ==
    {[relationship |-> rels[r].relationship_type,
      name |-> ents[CHOOSE o \in Endpoints(rels[r]) :
                       Endpoints(rels[r]) = {id, o}].name] :
        r \in {x \in DOMAIN rels :
                  /\ id \in Endpoints(rels[x])
                  /\ Endpoints(rels[x]) \subseteq DOMAIN ents}}

\* the entity ids that the messages of a thread list
ThreadEntityIds(thread) ==
    UNION {SeqRange(thread.messages[i].entities) :
              i \in 1..Len(thread.messages)}

\* get_memory_context: a plain text ("" or the no-history sentence), or
\* the context of the thread, which begins with the summary of the thread
\* and goes on with its entities and topics
get_memory_context(ents, rels, ths, thread_id) ==
    IF thread_id = <<>>
    THEN [context |-> FALSE, text |-> "", subject |-> <<>>, lines |-> <<>>,
          entities |-> {}, topics |-> <<>>]
    ELSE IF ~get_thread_context(ths, thread_id, 5).found
    THEN [context |-> FALSE, text |-> NoHistory, subject |-> <<>>,
          lines |-> <<>>, entities |-> {}, topics |-> <<>>]
    ELSE [context |-> TRUE, text |-> "",
          subject |-> get_thread_context(ths, thread_id, 5).summary.subject,
          lines |-> get_thread_context(ths, thread_id, 5).summary.lines,
          entities |->
              {[type |-> ents[id].type, name |-> ents[id].name,
                related |-> RelatedEntities(ents, rels, id)] :
                  id \in {x \in ThreadEntityIds(ths[thread_id]) \cap DOMAIN ents :
                             ents[x].type # <<>> /\ ents[x].name # <<>>}},
          topics |-> ths[thread_id].topics]

\* the emails that arrive, and the first of them without a threadId
ContextEmails ==
    Emails \cup {[email EXCEPT !.id = <<"m", "3">>, !.threadId = <<>>] :
                    email \in {e \in Emails : e.id = <<"m", "1">>}}

\* the thread ids that get_memory_context is called with
ContextThreadIds == {<<>>, <<"t", "1">>, <<"t", "2">>}

GetMemoryContext(thread_id) ==
    /\ summary' = [thread_id |-> thread_id,
                   result |-> get_memory_context(entities, relationships,
                                                 threads, thread_id)]
    /\ ret' = [NoRet EXCEPT !.op = "get_memory_context", !.thread = thread_id]
    /\ UNCHANGED <<entities, relationships, upserts, storeClock, threads, disk,
                   procs>>

NextContext ==
    \/ \E email \in ContextEmails :
          ProcessEmail(email, FromAgent(email)) /\ UNCHANGED mailVars
    \/ \E thread_id \in ContextThreadIds :
          GetMemoryContext(thread_id) /\ UNCHANGED mailVars

SpecContext == InitMemory /\ [][NextContext]_vars

\* C23: get_memory_context returns the fixed no-history sentence for every
\* thread id that has no stored thread (the empty string too), and for
\* every stored thread (a thread stored under the empty id too) a context
\* that begins with the subject line of the thread, never the sentence.
C23_SentinelIffUnknown ==
    ret.op = "get_memory_context" =>
        IF summary.thread_id \in DOMAIN threads
        THEN /\ summary.result.context
             /\ summary.result.subject = threads[summary.thread_id].subject
        ELSE ~summary.result.context /\ summary.result.text = NoHistory

(***************************************************************************)
(* The operations of one store object, load() on the running store among   *)
(* them                                                                    *)
(***************************************************************************)
\* a load that would replace the dictionary by the section of the file
LoadReplacing(d, loaded) ==
    [k \in DOMAIN loaded |->
        [loaded[k] EXCEPT !.index =
            Cardinality({j \in DOMAIN loaded : loaded[j].index < loaded[k].index})]]

\* load() assigns the items of a section of the file to the keys of a
\* dictionary of the store: a key that is there keeps its place and gets
\* the loaded value, a new key goes to the end, the other keys stay
LoadInto(d, loaded) ==
    [k \in DOMAIN d \cup DOMAIN loaded |->
        IF k \notin DOMAIN loaded THEN d[k]
        ELSE [loaded[k] EXCEPT !.index =
                 IF k \in DOMAIN d THEN d[k].index
                 ELSE Cardinality(DOMAIN d)
                      + Cardinality({j \in DOMAIN loaded \ DOMAIN d :
                                        loaded[j].index < loaded[k].index})]]

\* load() on the running store
Load ==
    /\ entities' = LoadInto(entities, load(disk).entities)
    /\ relationships' = LoadInto(relationships, load(disk).relationships)
    /\ threads' = LoadInto(threads, load(disk).threads)
    /\ upserts' = [id \in DOMAIN relationships' |->
                      IF id \in DOMAIN load(disk).relationships
                         \/ id \notin DOMAIN upserts
                      THEN 1 ELSE upserts[id]]
    /\ ret' = [NoRet EXCEPT !.op = "load"]
    /\ UNCHANGED <<storeClock, disk, summary, procs>>

\* save() on the running store
Save ==
    /\ disk' = save(entities, relationships, threads)
    /\ ret' = [NoRet EXCEPT !.op = "save"]
    /\ UNCHANGED <<entities, relationships, upserts, storeClock, threads,
                   summary, procs>>

\* extract_entities_from_text(text)
ExtractEntities(text) ==
    /\ entities' = extract_entities_from_text(entities, storeClock, text).entities
    /\ ret' = [NoRet EXCEPT !.op = "extract_entities_from_text"]
    /\ UNCHANGED <<relationships, upserts, storeClock, threads, disk, summary,
                   procs>>

\* analyze_thread_topics(thread_id)
AnalyzeThreadTopics(thread_id) ==
    /\ threads' = IF thread_id \in DOMAIN threads
                  THEN [threads EXCEPT ![thread_id].topics =
                           analyze_thread_topics(threads[thread_id])]
                  ELSE threads
    /\ ret' = [NoRet EXCEPT !.op = "analyze_thread_topics",
                            !.thread = thread_id]
    /\ UNCHANGED <<entities, relationships, upserts, storeClock, disk, summary,
                   procs>>

\* the names that callers give to add_entity in this specification
LifetimeNames == {<<"a">>, <<"A", " ", "B">>}

LifetimeIds == {EntityId(n, <<"p">>) : n \in LifetimeNames}

\* the one message that add_message stores
LifetimeEmails == {email \in Emails : email.id = <<"m", "1">>}

NextLifetime ==
    \/ \E name \in LifetimeNames :
          AddEntity(name, <<"p">>, {}) /\ UNCHANGED <<mailVars, memVars>>
    \/ \E e1 \in LifetimeIds : \E e2 \in LifetimeIds \ {e1} :
          /\ AddRelationship(e1, e2, WorksAt)
          /\ UpsertsWithin(MaxStrength)'
          /\ UNCHANGED <<mailVars, memVars>>
    \/ \E email \in LifetimeEmails :
          AddThread(email.threadId, email.subject) /\ UNCHANGED mailVars
    \/ \E email \in LifetimeEmails :
          AddMessage(email, FromAgent(email)) /\ UNCHANGED mailVars
    \/ \E name \in LifetimeNames : ExtractEntities(name) /\ UNCHANGED mailVars
    \/ \E email \in LifetimeEmails :
          AnalyzeThreadTopics(email.threadId) /\ UNCHANGED mailVars
    \/ Save /\ UNCHANGED mailVars
    \/ Load /\ UNCHANGED mailVars

SpecLifetime == InitMemory /\ [][NextLifetime]_vars

\* C24: entities and relationships are immortal: over any sequence of
\* store operations (add_entity, add_relationship, add_thread, add_message,
\* extract_entities_from_text, analyze_thread_topics, save, load) an entity
\* id or relationship id that is once in the store is in it in every later
\* state.
C24_Immortal ==
    [][/\ DOMAIN entities \subseteq DOMAIN entities'
       /\ DOMAIN relationships \subseteq DOMAIN relationships']_vars

\* load() has run on a store that holds an entity and a relationship that
\* the file does not hold
C24_Witness ==
    /\ ret.op = "load"
    /\ disk.state = "document"
    /\ DOMAIN entities \ DOMAIN disk.data.entities # {}
    /\ DOMAIN relationships \ DOMAIN disk.data.relationships # {}

(***************************************************************************)
(* GmailService: the filter of the listings                                *)
(***************************************************************************)
\* what makes _is_promotional answer True: a List-Unsubscribe header, a
\* Precedence header with 'bulk', an X-Category header with 'promotion' or
\* 'newsletter', a keyword in the subject; or nothing
PromoMarks == {"none", "list-unsubscribe", "bulk", "x-category", "subject"}

is_promotional(mark) == mark # "none"

\* user_email in from_email: the From header of a message that the account
\* sent holds the address of the account
FromUser(m, i) == m[i].sent

\* GmailService._is_already_replied: some message of the thread is from the
\* account; a failing threads().get or getProfile() answers False
is_already_replied(m, id, fail) ==
    IF fail THEN FALSE
    ELSE \E i \in 1..Len(ThreadListing(m, m[id].thread)) :
            FromUser(m, ThreadListing(m, m[id].thread)[i])

\* GmailService._should_process_email
should_process_email(m, id, mark, current_label, fail) ==
    IF is_already_replied(m, id, fail) THEN FALSE
    ELSE IF current_label # "PROMOTIONAL" /\ is_promotional(mark) THEN FALSE
    ELSE TRUE

ServiceLabels == {"STARRED", "PROMOTIONAL"}

ShouldProcessEmail(id, mark, current_label, fail) ==
    /\ ret' = [op |-> "should_process_email", id |-> id, mark |-> mark,
               current_label |-> current_label, fail |-> fail,
               result |-> should_process_email(msgs, id, mark, current_label,
                                               fail)]
    /\ UNCHANGED <<mailVars, entities, relationships, storeClock, upserts,
                   memVars>>

NextService ==
    \E id \in 1..Len(msgs), mark \in PromoMarks, label \in ServiceLabels,
       fail \in BOOLEAN :
        ShouldProcessEmail(id, mark, label, fail)

\* the starred messages of the listing: of somebody else, or sent by the
\* account
ServiceKinds ==
    [thread : Threads, date : 0..MaxTime, from : {FromOther, FromMe},
     unread : {FALSE}, starred : {TRUE}]

\* any mailbox of at most MaxSnap starred messages
InitService ==
    /\ \E n \in 0..MaxSnap : \E f \in [1..n -> ServiceKinds] :
          msgs = [i \in 1..n |-> SnapMessage(f[i])]
    /\ now = MaxTime
    /\ agentFrom = FromMe
    /\ InitRunState
    /\ InitStore

SpecService == InitService /\ [][NextService]_vars

\* the thread of message id is [external, agent, new external] in the
\* order of time, and id is the new external message
ReopenedThread(m, id) ==
    LET s == SortDesc(m, ThreadListing(m, m[id].thread))
    IN  /\ Len(s) = 3
        /\ s[1] = id
        /\ m[s[1]].date > m[s[2]].date
        /\ m[s[2]].date > m[s[3]].date
        /\ ~FromUser(m, s[1])
        /\ FromUser(m, s[2])
        /\ ~FromUser(m, s[3])

\* C25: in the GmailService path the already-replied test depends on the
\* current latest message and not on whether the system has ever replied:
\* for a thread [external, agent, new external], _should_process_email
\* returns true for the new external message when it is not promotional.
C25_ReopenedThreadIsProcessed ==
    (/\ ret.op = "should_process_email"
     /\ ~ret.fail
     /\ ret.mark = "none"
     /\ ReopenedThread(msgs, ret.id)) => ret.result

(***************************************************************************)
(* SpecHeaders: the runs of main against a mailbox in which starred,       *)
(* unread mail arrives with or without a From header                       *)
(***************************************************************************)
HeaderKinds ==
    [from : {FromOther, FromNone}, unread : {TRUE}, starred : {TRUE},
     content : {TRUE}]

NextHeaders ==
    \/ \E t \in Threads, k \in HeaderKinds :
          Arrive(t, k) /\ UNCHANGED <<storeVars, memVars>>
    \/ RunNext

SpecHeaders == Init /\ [][NextHeaders]_vars

\* the latest step of main called send_reply, which returned without an
\* exception
SendReplyReturned ==
    /\ last.step = "act"
    /\ last.gen \in {"ok", "error"}
    /\ last.err = "none"

\* C26: the processed transition commits only after a successful send:
\* when send_reply does not deliver a message (it returns False because no
\* recipient was found), main does not increment sent_replies and does not
\* remove the star, so the final sent_replies equals the number of
\* messages actually sent.
C26_CommitOnlyAfterSend ==
    (SendReplyReturned /\ ~last.delivered) =>
        ~last.counted /\ last.unstar = "none"

\* C27: if any mailbox call fails during get_latest_message_in_thread, the
\* result is (None, False) and main sends no reply and changes no label:
\* the iteration ends, the mailbox and sent_replies are as they were.
C27_FailedLookupDoesNothing ==
    [][(last'.step = "eval" /\ last'.err = "eval") =>
          /\ \A e \in queue :
                LET r == get_latest_message_in_thread(msgs, e, now, TRUE)
                IN  r.latest = NoMsg /\ ~r.should_process
          /\ pc' = "loop"
          /\ cur' = NoCur
          /\ msgs' = msgs
          /\ sent_replies' = sent_replies]_vars

\* a mailbox call failed in the evaluation of a starred email whose thread
\* would have been answered
C27_Witness ==
    /\ last.step = "eval"
    /\ last.err = "eval"
    /\ \E e \in StarredIds(msgs) :
          /\ msgs[e].thread = last.thread
          /\ e \notin queue
          /\ get_latest_message_in_thread(msgs, e, now, FALSE).should_process

(***************************************************************************)
(* SpecNames: add_entity and process_email with names and aliases that     *)
(* are empty or blank                                                      *)
(***************************************************************************)
\* the names and aliases that callers pass: "", "a"; " ", " x"
BlankNames == {<<>>, <<"a">>}
BlankAliases == {<<" ">>, <<" ", "x">>}

\* the emails that arrive: the first of Emails, as it is and with a From
\* header that has a blank before the address
NameEmails ==
    {email \in Emails : email.id = <<"m", "1">>}
    \cup {[email EXCEPT !.from = <<" ">> \o SubSeq(@, 7, Len(@))] :
             email \in {e \in Emails : e.id = <<"m", "1">>}}

\* the texts that Entity.matches is asked about
MatchTexts == {<<"h", "i", " ", "y", "o", "u">>, <<"a", " ", "x">>}

NextNames ==
    \/ \E name \in BlankNames, aliases \in SUBSET BlankAliases :
          AddEntity(name, <<"p">>, aliases) /\ UNCHANGED <<mailVars, memVars>>
    \/ \E email \in NameEmails :
          ProcessEmail(email, FromAgent(email)) /\ UNCHANGED mailVars

SpecNames == InitMemory /\ [][NextNames]_vars

\* the names of an entity that are not blank
RealNames(ent) ==
    {n \in {ent.name} \cup ent.aliases : Strip(n) # <<>>}

\* C28: in every state reachable through process_email and add_entity, no
\* stored entity has an empty name and no alias set contains an empty or
\* whitespace-only string; so Entity.matches is false for a text that
\* contains none of the real names of the entity.
C28_NoBlankNames ==
    \A id \in DOMAIN entities :
        /\ entities[id].name # <<>>
        /\ \A alias \in entities[id].aliases : Strip(alias) # <<>>
        /\ \A text \in MatchTexts :
              matches(entities[id], text) =>
                  \E n \in RealNames(entities[id]) :
                      IsSubstring(Lower(n), Lower(text))

AlreadyRepliedBranch ==
    /\ last.step = "act"
    /\ last.gen = "none"
    /\ last.unstar # "none"

\* C30: for any fixed snapshot, has_been_replied_to_by_agent returns true
\* only if get_latest_message_in_thread returns should_process = false; so
\* the already-replied branch of main, which removes the star, is not taken
\* while the mailbox is the same at the two thread fetches.
C30_RepliedImpliesSkipped ==
    /\ \A e \in 1..Len(msgs) :
          LET r == get_latest_message_in_thread(msgs, e, now, FALSE)
          IN  (r.latest # NoMsg
               /\ has_been_replied_to_by_agent(msgs, r.latest, FALSE))
                  => ~r.should_process
    /\ ~AlreadyRepliedBranch

\* main has evaluated a starred email of a thread with an unread message
\* for which has_been_replied_to_by_agent answers True
C30_Witness ==
    /\ last.step = "eval"
    /\ \E e \in 1..Len(msgs) :
          /\ msgs[e].thread = last.thread
          /\ msgs[e].starred
          /\ e \notin queue
          /\ HasUnread(msgs, ThreadListing(msgs, msgs[e].thread))
          /\ has_been_replied_to_by_agent(
                 msgs, get_latest_message_in_thread(msgs, e, now, FALSE).latest,
                 FALSE)

====
